---- MODULE Spec2Model ----
(***************************************************************************)
(* Frogwatch: recording lifecycle, role-gated mutations and the client     *)
(* views that submit, edit and list recordings.                            *)
(*                                                                         *)
(* One device with one authentication session (auth.currentUser), the      *)
(* Firestore collections `users` and `recordings`, and the screens         *)
(* PredictionScreen, HistoryScreen, MapHistoryScreen and UsersScreen.      *)
(* Every await of a handler is a suspension point: the handler is split    *)
(* into one action per continuation.                                       *)
(***************************************************************************)
EXTENDS Integers, Sequences, FiniteSets, Bags, TLC

(* ------------------------------ bounds --------------------------------- *)
\* submit taps that pass the client-side guards, per draft
MaxAttempts == 2
\* PredictionScreen instances (drafts) mounted in one run
MaxDrafts == 1
\* edit writes issued from the History and Map views in one run
MaxEdits == 1
\* review decisions (approve / discard) requested in one run
MaxReviews == 2
\* role writes issued from the UsersScreen in one run
MaxRoleWrites == 2
\* calls of getCityFromCoords in one run
MaxLookups == 3

(* ------------------------------ values --------------------------------- *)
Users == {"a1", "e1", "v1"}
NoUser == "none"
NoDoc == [exists |-> FALSE]
Statuses == {"needs_review", "approved", "discarded"}
ConfidenceLevels == {"high", "medium", "low"}
RecIds == 1 .. (MaxDrafts * MaxAttempts)
NoRec == 0

VARIABLES
  currentUser,   \* auth.currentUser: a uid or NoUser
  userDocs,      \* Firestore users/{uid}
  recordings,    \* Firestore recordings/{id}: a document or NoDoc
  ghost,         \* per recording: how it was created (history variable)
  mounted,       \* the screens that are mounted
  draft,         \* number of the PredictionScreen instance (draft)
  ps,            \* PredictionScreen React state
  view,          \* the values the last render of PredictionScreen captured
  roleReq,       \* uid whose users document the role effect is fetching
  subs,          \* invocations of handleSubmit that are suspended at an await
  net,           \* calls the current draft has made: token, profile, upload, write
  attempts,      \* invocations of handleSubmit that passed the guards (this draft)
  lastTap,       \* what the last tap on the submit button did
  hist,          \* HistoryScreen state
  map,           \* MapHistoryScreen state
  edits,         \* updateDoc calls of the two views that are in flight
  lastEdit,      \* the last edit write issued: target, owner of target, actor
  nEdits,        \* edit writes issued
  review,        \* the last review decision requested and what became of it
  nReviews,      \* review decisions requested
  us,            \* UsersScreen state
  roleOps,       \* role writes of the UsersScreen that are in flight
  lastRoleWrite, \* the last role write issued: target, actor, the actor's role
  nRoleWrites,   \* role writes issued
  home,          \* ExpertHomeScreen state: the review counts and their load
  nav,           \* the home screens chosen by handleLogin and by getHomeScreen
  reg,           \* RegisterScreen state: the step of handleRegister and its error
  pred,          \* PredictionScreen: the prediction effect, callPredict and what they set
  data,          \* DataProvider: allUsers, allRecordings, initialLoadComplete, loads in flight
  calc,          \* a number and what applying toPercent to it has given so far
  geo,           \* the geocode caches, the lookups in flight, the geocoder calls made
  ctx            \* DataProvider state: the my-recordings listener and list

envVars == << mounted, home, nav, reg, pred, data, calc, geo, ctx >>

vars == << currentUser, userDocs, recordings, ghost, envVars, draft, ps, view,
           roleReq, subs, net, attempts, lastTap, hist, map,
           edits, lastEdit, nEdits, review, nReviews, us, roleOps,
           lastRoleWrite, nRoleWrites >>

authVars == << currentUser >>
storeVars == << recordings, ghost >>
predVars == << draft, ps, view, roleReq, subs, net, attempts, lastTap >>
viewVars == << hist, map, edits, lastEdit, nEdits >>
reviewVars == << review, nReviews >>
usersVars == << us, roleOps, lastRoleWrite, nRoleWrites >>

(* --------------------------- role resolution --------------------------- *)
\* String.prototype.toLowerCase on the role strings that occur
Lower(s) ==
  CASE s = "Volunteer" -> "volunteer"
    [] s = "Expert" -> "expert"
    [] s = "Admin" -> "admin"
    [] OTHER -> s

\* PredictionScreen: (snap.data()?.role ?? 'volunteer'); the raw role string
ScreenRole(d) ==
  IF d.exists /\ d.role # "absent" THEN d.role ELSE "volunteer"

\* getHomeScreen / UsersScreen: flag or lower-cased role string
DocIsAdmin(d) == d.exists /\ (d.isAdmin \/ Lower(d.role) = "admin")
DocIsExpert(d) == d.exists /\ (d.isExpert \/ Lower(d.role) = "expert")

\* canonical role: explicit role when present, else the legacy flags
ResolveRole(d) ==
  IF ~d.exists THEN "volunteer"
  ELSE IF d.role # "absent" THEN Lower(d.role)
  ELSE IF d.isAdmin THEN "admin"
  ELSE IF d.isExpert THEN "expert"
  ELSE "volunteer"

RoleOf(u) == IF u = NoUser THEN "none" ELSE ResolveRole(userDocs[u])

(* ------------------------------ the store ------------------------------ *)
FreeIds == { r \in RecIds : ~recordings[r].exists }
\* doc(collection(db, 'recordings')): a reference with a fresh id
NewRecId == CHOOSE r \in FreeIds : \A q \in FreeIds : r <= q
Existing == { r \in RecIds : recordings[r].exists }

\* the result set of query(recordings, where('userId', '==', uid))
OwnedBy(uid) == { r \in Existing : recordings[r].userId = uid }

\* serverTimestamp(): later writes get later times
ServerTime == Cardinality(Existing) + 1

(* ------------------------------ geocoding ------------------------------ *)
\* latitudes in units of 0.0001 degree (the longitude is the same everywhere):
\* 42.2801 and 42.2804 round to the key 42.280, 42.2812 to 42.281
GeoLats == {422801, 422804, 422812}
\* the location a PredictionScreen submits
SubmitLat == 422801
\* lat.toFixed(3), as the number of thousandths
GeoKey(lat) == (lat + 5) \div 10
GeoKeys == { GeoKey(lat) : lat \in GeoLats }
\* `${lat.toFixed(2)}, ${lon.toFixed(2)}`: the placeholder a row shows
CoordText(lat) == IF (lat + 50) \div 100 = 4228 THEN "42.28, -83.74" ELSE "42.29, -83.74"
\* a locationCity stored as bare coordinates
StoredCoords == "42.28,-83.74"
PlaceName == "Ann Arbor, Michigan"
\* String.prototype.includes(',') and includes(' ') on the texts that occur
IncludesComma(text) == text \in {"42.28, -83.74", "42.29, -83.74", StoredCoords, PlaceName}
IncludesSpace(text) ==
  text \in {"42.28, -83.74", "42.29, -83.74", PlaceName, "Unknown Location"}

\* the screens whose module has a geocodeCache; the PredictionScreen's
\* getCityFromCoords has none
CachedScreens == {"history", "map"}
GeoScreens == {"history", "map", "prediction"}
\* how the geocoder may answer: a place, a body without an address, a body
\* that is not JSON, or no answer
GeoOutcomes == {"place", "no_address", "bad_json", "network_error"}
NoLookup == [ outcome |-> "none" ]
InitGeo ==
  [ cache |-> [ screen \in CachedScreens |-> [ key \in GeoKeys |-> "" ] ],
    fetches |-> {}, batches |-> {},
    calls |-> [ key \in GeoKeys |-> 0 ],
    n |-> 0, last |-> NoLookup ]

\* what getCityFromCoords returns for an answer of the geocoder
GeoResult(screen, outcome) ==
  IF outcome = "place" THEN PlaceName
  ELSE IF outcome = "no_address"
  THEN (IF screen \in CachedScreens THEN "Unknown" ELSE "Unknown Location")
  ELSE "Unknown Location"

\* whether getCityFromCoords reaches `geocodeCache[cacheKey] = result`
GeoCaches(screen, outcome) ==
  screen \in CachedScreens /\ outcome \in {"place", "no_address"}

\* a batch collects { recordingId, city } of one of its lookups
AddResult(batches, b, rec, city) ==
  { IF x.id = b THEN [ x EXCEPT !.results = @ \cup { [ recordingId |-> rec, city |-> city ] } ]
    ELSE x : x \in batches }

\* getCityFromCoords up to its first await: a cache hit returns, a miss
\* calls the geocoder; g is the geocoding state, the result is the new one
Lookup(g, screen, lat, rec, b) ==
  IF screen \in CachedScreens /\ g.cache[screen][GeoKey(lat)] # ""
  THEN [ g EXCEPT !.n = @ + 1,
                  !.last = [ outcome |-> "hit", screen |-> screen, key |-> GeoKey(lat),
                             result |-> g.cache[screen][GeoKey(lat)] ],
                  !.batches = AddResult(@, b, rec, g.cache[screen][GeoKey(lat)]) ]
  ELSE [ g EXCEPT !.n = @ + 1,
                  !.calls[GeoKey(lat)] = @ + 1,
                  !.fetches = @ \cup { [ id |-> g.n + 1, screen |-> screen,
                                         key |-> GeoKey(lat), rec |-> rec, batch |-> b ] } ]

\* one call of getCityFromCoords by a screen
GeoLookup(screen, lat) ==
  /\ geo.n < MaxLookups
  /\ geo' = Lookup(geo, screen, lat, NoRec, 0)
  /\ UNCHANGED << mounted, home, nav, reg, pred, data, calc, ctx, authVars, userDocs, storeVars, predVars, viewVars,
                  reviewVars, usersVars >>

\* prev.map(rec => update ? { ...rec, locationCity: update.city } : rec)
PatchCities(rows, results) ==
  [ i \in 1 .. Len(rows) |->
      IF \E u \in results : u.recordingId = rows[i].recordingId
      THEN [ rows[i] EXCEPT !.locationCity =
               (CHOOSE u \in results : u.recordingId = rows[i].recordingId).city ]
      ELSE rows[i] ]

\* Promise.all(lookups): the batches whose every lookup has returned
Settled(batches) == { b \in batches : Cardinality(b.results) = b.size }

\* Promise.all(...).then(results => setRecordings(prev => prev.map(...))) of
\* the settled batches of `screen`, applied to its list; the callback runs
\* as soon as the last lookup of the batch returns, and nothing cancels it
ThenPatch(batches, screen, rows) ==
  IF \E b \in Settled(batches) : b.screen = screen
  THEN PatchCities(rows, (CHOOSE b \in Settled(batches) : b.screen = screen).results)
  ELSE rows

\* the geocoding state once the settled batches have run their callback
Resolved(g) == [ g EXCEPT !.batches = @ \ Settled(@) ]

\* the geocoding state when the answer `outcome` of the fetch f arrives
Answered(g, f, outcome) ==
  [ g EXCEPT
      !.fetches = @ \ {f},
      !.cache = IF GeoCaches(f.screen, outcome)
                THEN [ @ EXCEPT ![f.screen][f.key] = GeoResult(f.screen, outcome) ]
                ELSE @,
      !.last = [ outcome |-> outcome, screen |-> f.screen, key |-> f.key,
                 result |-> GeoResult(f.screen, outcome) ],
      !.batches = AddResult(@, f.batch, f.rec, GeoResult(f.screen, outcome)) ]

\* the geocoder's answer (or failure) reaches getCityFromCoords; the
\* PredictionScreen's effect sets locationCity, and a batch whose last
\* lookup this is patches the list of its view
GeoFetchDone(f, outcome) ==
  /\ f \in geo.fetches
  /\ geo' = Resolved(Answered(geo, f, outcome))
  /\ hist' = [hist EXCEPT !.recordings = ThenPatch(Answered(geo, f, outcome).batches, "history", @)]
  /\ map' = [map EXCEPT !.recordings = ThenPatch(Answered(geo, f, outcome).batches, "map", @)]
  /\ pred' = IF f.screen = "prediction"
             THEN [pred EXCEPT !.locationCity = GeoResult(f.screen, outcome)]
             ELSE pred
  /\ UNCHANGED << mounted, home, nav, reg, data, calc, ctx, edits, lastEdit, nEdits,
                  authVars, userDocs, storeVars, predVars, reviewVars, usersVars >>

(* ------------------------------- numbers ------------------------------- *)
\* `undefined`, where a number is expected
Undefined == 0 - 2
\* a JavaScript number x is kept as the integer x * Scale (four decimals)
Scale == 100 * 100
\* the x of 0 .. 1 (four decimals) whose product x * 100 is a double just
\* below a half (0.575 * 100 = 57.49999999999999): Math.round rounds them down
FloatBelowHalf == {1450, 2850, 5650, 5750}
\* Math.round(x * 100): an integer, not scaled; x is a four-decimal number of
\* 0 .. 1 or a multiple of 0.01
RoundPercent(x) ==
  IF x \in FloatBelowHalf THEN (x * 100) \div Scale
  ELSE (x * 100 + Scale \div 2) \div Scale

\* toPercent: confMaybe01 <= 1 ? confMaybe01 * 100 : confMaybe01
ToPercent(confMaybe01) ==
  IF confMaybe01 <= Scale THEN confMaybe01 * 100 ELSE confMaybe01

\* normalizedTop3: t.confidence > 1 ? Math.max(0, Math.min(1, t.confidence / 100)) : t.confidence
Normalize01(confidence) ==
  IF confidence > Scale
  THEN (IF confidence \div 100 > Scale THEN Scale ELSE confidence \div 100)
  ELSE confidence

\* the confidence of the first prediction the model service returns (0.82),
\* and top3[0].confidence as callPredict's caller stores it
ModelConfidence == 82 * 100
Top3Confidence == ToPercent(ModelConfidence)
\* primaryConf01 = normalizedTop3[0]?.confidence ?? 0
PrimaryConf01 == Normalize01(Top3Confidence)

\* normalizedTop3 = (top3 || []).map(t => ({ species, confidence: ... }))
NormalizedTop3(top3) ==
  [ i \in 1 .. Len(top3) |->
      [ species |-> top3[i].species, confidence |-> Normalize01(top3[i].confidence) ] ]

\* primaryConf01 of the top3 the screen holds
PrimaryConf(top3) ==
  IF Len(top3) > 0 THEN NormalizedTop3(top3)[1].confidence ELSE 0

\* the top3 of a draft whose model run has answered Bullfrog at 0.82, as the
\* screen holds it
GivenTop3 == << [ species |-> "Bullfrog", confidence |-> Top3Confidence ] >>

\* the numbers the conversions are applied to: 0 .. 0.1 in steps of 0.0025,
\* 0 .. 1 in steps of 0.1, and the percentages 1 .. MaxPercent
MaxPercent == 100
PercentInputs ==
  { k * 25 : k \in 0 .. 40 } \cup { k * 1000 : k \in 0 .. 10 }
    \cup { k * Scale : k \in 1 .. MaxPercent }
NoCalc == [ stage |-> 0, x |-> 0, once |-> 0, value |-> 0 ]

\* toPercent is applied to the value at hand
ApplyToPercent ==
  /\ calc.stage \in {1, 2}
  /\ calc' = [calc EXCEPT !.stage = @ + 1,
                          !.value = ToPercent(calc.value),
                          !.once = IF calc.stage = 1 THEN ToPercent(calc.value) ELSE @]
  /\ UNCHANGED << mounted, home, nav, reg, pred, data, geo, ctx, authVars, userDocs, storeVars, predVars, viewVars,
                  reviewVars, usersVars >>

\* handleSubmit maps a converted value back with normalizedTop3
ApplyNormalize01 ==
  /\ calc.stage = 2
  /\ calc' = [calc EXCEPT !.stage = 4, !.value = Normalize01(calc.value)]
  /\ UNCHANGED << mounted, home, nav, reg, pred, data, geo, ctx, authVars, userDocs, storeVars, predVars, viewVars,
                  reviewVars, usersVars >>

(* --------------------------- PredictionScreen -------------------------- *)
InitPs == [ role |-> "null", submitAsExpert |-> FALSE, volunteerConfidence |-> "",
            submitting |-> FALSE, hasSubmitted |-> FALSE ]
NoCalls == [ token |-> 0, profile |-> 0, upload |-> 0, write |-> 0 ]


\* variant of the guards without the confidence check
SubmitGuardNoConfidence(v) ==
  IF v.hasSubmitted THEN "dup"
  ELSE IF v.submitting THEN "busy"
  ELSE "start"


\* the submit button of a render v: disabled={submitting || hasSubmitted}
SubmitDisabled(v) == v.submitting \/ v.hasSubmitted

\* variant of setSubmitting(true) that leaves the state as it is
SetSubmittingNot(state) == state

\* handleSubmit: setSubmitting(true)
SetSubmitting(state) == [ state EXCEPT !.submitting = TRUE ]

\* variant of the success path that does not mark the draft as submitted
SetHasSubmittedNot(state) == [ state EXCEPT !.submitting = FALSE ]

\* handleSubmit after setDoc: setHasSubmitted(true), then finally
\* setSubmitting(false)
SetHasSubmitted(state) == [ state EXCEPT !.hasSubmitted = TRUE, !.submitting = FALSE ]

\* handleSubmit, the synchronous guards; v is the render the handler closes over
SubmitGuard(v) ==
  IF v.hasSubmitted THEN "dup"
  ELSE IF v.submitting THEN "busy"
  ELSE IF v.volunteerConfidence = "" THEN "noconf"
  ELSE "start"

\* const isExpert = role === 'expert' || role === 'admin'
IsExpertRole(role) == role \in {"expert", "admin"}

\* variant that sends every submission to review first
SubmitStatusReviewFirst(submitAsExpert, role) == "needs_review"

\* the branch of handleSubmit that picks the status of the new document
SubmitStatus(submitAsExpert, role) ==
  IF submitAsExpert /\ IsExpertRole(role) THEN "approved" ELSE "needs_review"

\* variant of the approved branch that leaves out expertReview
NewRecordingNoReviewer(uid, submitAsExpert, role, level, now) ==
  [ exists |-> TRUE,
    userId |-> uid,
    status |-> SubmitStatus(submitAsExpert, role),
    reviewer |-> NoUser,
    history |-> << [action |-> "submitted", actorId |-> uid] >>,
    predictedSpecies |-> "Bullfrog",
    species |-> "",
    notes |-> "",
    confidenceScore |-> PrimaryConf01,
    aiConfidence |-> PrimaryConf01,
    aiSpecies |-> "Bullfrog",
    aiTop3 |-> NormalizedTop3(GivenTop3),
    confidence |-> Undefined,
    lat |-> SubmitLat,
    locationCity |-> "",
    \* timestamp: serverTimestamp(), timestamp_iso: nowIso
    timestampMs |-> now,
    timestampIso |-> now,
    volunteerConfidenceLevel |-> level ]

\* baseDoc plus the status (and the expertReview of an expert submission)
NewRecording(uid, submitAsExpert, role, level, now) ==
  [ exists |-> TRUE,
    userId |-> uid,
    status |-> SubmitStatus(submitAsExpert, role),
    reviewer |-> IF SubmitStatus(submitAsExpert, role) = "approved" THEN uid ELSE NoUser,
    history |-> << [action |-> "submitted", actorId |-> uid] >>,
    predictedSpecies |-> "Bullfrog",
    species |-> "",
    notes |-> "",
    confidenceScore |-> PrimaryConf01,
    aiConfidence |-> PrimaryConf01,
    aiSpecies |-> "Bullfrog",
    aiTop3 |-> NormalizedTop3(GivenTop3),
    confidence |-> Undefined,
    lat |-> SubmitLat,
    locationCity |-> "",
    \* timestamp: serverTimestamp(), timestamp_iso: nowIso
    timestampMs |-> now,
    timestampIso |-> now,
    volunteerConfidenceLevel |-> level ]

\* baseDoc's prediction fields: predictedSpecies, aiSpecies and ai.species are
\* predictedSpecies || ''; confidenceScore, aiConfidence and ai.confidence are
\* primaryConf01; ai.top3 is normalizedTop3
WithPrediction(d, predictedSpecies, top3) ==
  [ d EXCEPT !.predictedSpecies = predictedSpecies,
             !.aiSpecies = predictedSpecies,
             !.confidenceScore = PrimaryConf(top3),
             !.aiConfidence = PrimaryConf(top3),
             !.aiTop3 = NormalizedTop3(top3) ]

\* what is remembered about the Submit that created a recording, and about
\* its resubmissions
SubmitGhost(d, optionOn, submitterRole, status) ==
  [ draft |-> d, optionOn |-> optionOn, submitterRole |-> submitterRole,
    createdStatus |-> status, resubmits |-> 0, resubmittedFrom |-> "none",
    override |-> Undefined, predSource |-> "real", resSpecies |-> "Bullfrog" ]

\* the state a new PredictionScreen holds of its prediction: useState('Bullfrog'),
\* useState([]), useRef(true), sound null; effect: where the mount effect
\* stands; calls: the calls of callPredict in flight; ended: what the calls
\* that returned did; source, resSpecies: the result the screen has stored
\* last; plays: the calls of handlePlay in flight
InitPred ==
  [ effect |-> "idle", mountedRef |-> TRUE, sound |-> FALSE,
    locationCity |-> "Loading location...", plays |-> EmptyBag,
    loading |-> FALSE, apiError |-> "",
    predictedSpecies |-> "Bullfrog", top3 |-> << >>,
    apiBase |-> << >>, calls |-> EmptyBag, ended |-> {}, reruns |-> 0,
    source |-> "none", resSpecies |-> "" ]

\* what a render of the screen captures, and the handlers it creates close
\* over: the state of ps, predictedSpecies and top3 (with the result they
\* came from), and sound
Rendered(state, p) ==
  [ role |-> state.role, submitAsExpert |-> state.submitAsExpert,
    volunteerConfidence |-> state.volunteerConfidence,
    submitting |-> state.submitting, hasSubmitted |-> state.hasSubmitted,
    predictedSpecies |-> p.predictedSpecies, top3 |-> p.top3,
    predSource |-> p.source, resSpecies |-> p.resSpecies, sound |-> p.sound ]

\* what a render after the render v commits: the effect that depends on
\* `sound` is run again when sound has changed, and its cleanup sets
\* mountedRef.current = false
Committed(p, v) == [ p EXCEPT !.mountedRef = IF v.sound # p.sound THEN FALSE ELSE @ ]

\* a new PredictionScreen is pushed for a fresh recording: the useState
\* values, then the mount effects: the role effect starts the read of
\* users/{auth.currentUser.uid}, the location effect calls getCityFromCoords
\* with the coordinates of the recording, the prediction effect calls
\* getInfoAsync
MountPrediction ==
  /\ "prediction" \in mounted
  /\ draft < MaxDrafts
  /\ subs = {}
  /\ geo.n < MaxLookups
  /\ geo' = Lookup(geo, "prediction", SubmitLat, NoRec, 0)
  /\ draft' = draft + 1
  /\ ps' = InitPs
  /\ pred' = [ InitPred EXCEPT !.effect = "info", !.apiBase = pred.apiBase ]
  /\ view' = Rendered(ps', pred')
  /\ roleReq' = currentUser
  /\ net' = NoCalls
  /\ attempts' = 0
  /\ lastTap' = "none"
  /\ UNCHANGED << subs, authVars, userDocs, storeVars, mounted, home, nav, reg, data, calc,
                  ctx, viewVars, reviewVars, usersVars >>

\* the role effect's getDoc resolves (ok) or throws
RoleFetched(ok) ==
  /\ roleReq # NoUser
  /\ ps' = [ps EXCEPT !.role = IF ok THEN ScreenRole(userDocs[roleReq]) ELSE "volunteer"]
  /\ roleReq' = NoUser
  /\ UNCHANGED << draft, view, subs, net, attempts, lastTap,
                  authVars, userDocs, storeVars, envVars, viewVars, reviewVars, usersVars >>

\* React commits the state set by asynchronous continuations
Render ==
  /\ draft > 0
  /\ view # Rendered(ps, pred)
  /\ pred' = Committed(pred, view)
  /\ view' = Rendered(ps, pred')
  /\ UNCHANGED << draft, ps, roleReq, subs, net, attempts, lastTap, mounted, home, nav, reg, data, calc, geo, ctx,
                  authVars, userDocs, storeVars, viewVars, reviewVars, usersVars >>

\* the volunteer confidence buttons
SelectConfidence(level) ==
  /\ draft > 0
  /\ ps' = [ps EXCEPT !.volunteerConfidence = level]
  /\ pred' = Committed(pred, view)
  /\ view' = Rendered(ps', pred')
  /\ UNCHANGED << draft, roleReq, subs, net, attempts, lastTap, mounted, home, nav, reg, data, calc, geo, ctx,
                  authVars, userDocs, storeVars, viewVars, reviewVars, usersVars >>

\* the "Submit as Expert" checkbox, rendered for expert and admin only
ToggleSubmitAsExpert ==
  /\ draft > 0
  /\ IsExpertRole(view.role)
  /\ ps' = [ps EXCEPT !.submitAsExpert = ~ps.submitAsExpert]
  /\ pred' = Committed(pred, view)
  /\ view' = Rendered(ps', pred')
  /\ UNCHANGED << draft, roleReq, subs, net, attempts, lastTap, mounted, home, nav, reg, data, calc, geo, ctx,
                  authVars, userDocs, storeVars, viewVars, reviewVars, usersVars >>

\* a tap on the submit button, which takes taps while it is not disabled:
\* handleSubmit of the last render (its role, submitAsExpert,
\* volunteerConfidence, predictedSpecies and top3) up to its first await
\* that suspends (ensureSignedIn rejects or user.getIdToken() is called)
TapSubmit ==
  /\ draft > 0
  /\ ~SubmitDisabled(view)
  /\ LET g == SubmitGuard(view) IN
     IF g # "start"
     THEN /\ lastTap' = g
          /\ UNCHANGED << ps, view, pred, subs, net, attempts >>
     ELSE IF currentUser = NoUser
     THEN \* setSubmitting(true); ensureSignedIn throws; catch; setSubmitting(false)
          /\ attempts < MaxAttempts
          /\ lastTap' = "nosign"
          /\ attempts' = attempts + 1
          /\ ps' = [ps EXCEPT !.submitting = FALSE]
          /\ pred' = Committed(pred, view)
          /\ view' = Rendered(SetSubmitting(ps), pred')
          /\ UNCHANGED << subs, net >>
     ELSE /\ attempts < MaxAttempts
          /\ lastTap' = "started"
          /\ attempts' = attempts + 1
          /\ ps' = SetSubmitting(ps)
          /\ pred' = Committed(pred, view)
          /\ view' = Rendered(ps', pred')
          /\ subs' = subs \cup { [ id |-> attempts + 1, pc |-> "token", user |-> currentUser,
                                   role |-> view.role,
                                   submitAsExpert |-> view.submitAsExpert,
                                   level |-> view.volunteerConfidence,
                                   predictedSpecies |-> view.predictedSpecies,
                                   top3 |-> view.top3,
                                   predSource |-> view.predSource,
                                   resSpecies |-> view.resSpecies ] }
          /\ net' = [net EXCEPT !.token = @ + 1]
  /\ UNCHANGED << draft, roleReq, authVars, userDocs, storeVars, mounted, home, nav, reg, data, calc, geo, ctx, viewVars,
                  reviewVars, usersVars >>

Advance(s, pc) == (subs \ {s}) \cup { [s EXCEPT !.pc = pc] }

\* variant of the failure path that marks the draft as submitted
SubmitAbortedMarked(s) ==
  /\ subs' = subs \ {s}
  /\ ps' = [ps EXCEPT !.submitting = FALSE, !.hasSubmitted = TRUE]
  /\ UNCHANGED << draft, view, roleReq, attempts, lastTap,
                  authVars, userDocs, storeVars, envVars, viewVars, reviewVars, usersVars >>

\* catch + finally of handleSubmit, and the early return on a missing file
SubmitAborted(s) ==
  /\ subs' = subs \ {s}
  /\ ps' = [ps EXCEPT !.submitting = FALSE]
  /\ UNCHANGED << draft, view, roleReq, attempts, lastTap,
                  authVars, userDocs, storeVars, envVars, viewVars, reviewVars, usersVars >>

\* user.getIdToken() settles; on success getUserProfile is called
TokenDone(s, ok) ==
  /\ s \in subs /\ s.pc = "token"
  /\ IF ok
     THEN /\ subs' = Advance(s, "profile")
          /\ net' = [net EXCEPT !.profile = @ + 1]
          /\ UNCHANGED << draft, ps, view, roleReq, attempts, lastTap,
                          authVars, userDocs, storeVars, envVars, viewVars, reviewVars, usersVars >>
     ELSE SubmitAborted(s) /\ UNCHANGED net

\* getUserProfile settles (it swallows its errors); FileSystem.getInfoAsync is called
ProfileDone(s) ==
  /\ s \in subs /\ s.pc = "profile"
  /\ subs' = Advance(s, "info")
  /\ UNCHANGED << draft, ps, view, roleReq, net, attempts, lastTap,
                  authVars, userDocs, storeVars, envVars, viewVars, reviewVars, usersVars >>

\* getInfoAsync settles; if the file exists FileSystem.uploadAsync is called
InfoDone(s, fileExists) ==
  /\ s \in subs /\ s.pc = "info"
  /\ IF fileExists
     THEN /\ subs' = Advance(s, "upload")
          /\ net' = [net EXCEPT !.upload = @ + 1]
          /\ UNCHANGED << draft, ps, view, roleReq, attempts, lastTap,
                          authVars, userDocs, storeVars, envVars, viewVars, reviewVars, usersVars >>
     ELSE SubmitAborted(s) /\ UNCHANGED net

\* uploadAsync settles: 2xx, another status, or an exception; on 2xx setDoc is called
UploadDone(s, result) ==
  /\ s \in subs /\ s.pc = "upload"
  /\ IF result = "ok"
     THEN /\ subs' = Advance(s, "write")
          /\ net' = [net EXCEPT !.write = @ + 1]
          /\ UNCHANGED << draft, ps, view, roleReq, attempts, lastTap,
                          authVars, userDocs, storeVars, envVars, viewVars, reviewVars, usersVars >>
     ELSE SubmitAborted(s) /\ UNCHANGED net

\* setDoc settles: the document is committed, setHasSubmitted(true) and the
\* finally block run; or it rejects
WriteDone(s, ok) ==
  /\ s \in subs /\ s.pc = "write"
  /\ IF ok
     THEN /\ recordings' = [recordings EXCEPT ![NewRecId] =
                               WithPrediction(NewRecording(s.user, s.submitAsExpert, s.role,
                                                           s.level, ServerTime),
                                              s.predictedSpecies, s.top3)]
          /\ ghost' = [ghost EXCEPT ![NewRecId] =
                          [ SubmitGhost(draft, s.submitAsExpert, RoleOf(s.user),
                                        SubmitStatus(s.submitAsExpert, s.role))
                              EXCEPT !.predSource = s.predSource,
                                     !.resSpecies = s.resSpecies ]]
          /\ subs' = subs \ {s}
          /\ ps' = SetHasSubmitted(ps)
          /\ UNCHANGED << draft, view, roleReq, net, attempts, lastTap,
                          authVars, userDocs, envVars, viewVars, reviewVars, usersVars >>
     ELSE SubmitAborted(s) /\ UNCHANGED net

(* ------------------------- the recordings views ------------------------ *)
RECURSIVE SetToSeq(_)
\* snap.docs: the documents of a query result, in document-id order
SetToSeq(S) ==
  IF S = {} THEN << >>
  ELSE LET m == CHOOSE x \in S : \A y \in S : x <= y
       IN << m >> \o SetToSeq(S \ {m})

\* the row a snapshot callback builds from one document
Row(r) ==
  [ recordingId |-> r,
    userId |-> recordings[r].userId,
    predictedSpecies |-> recordings[r].predictedSpecies,
    species |-> recordings[r].species,
    status |-> recordings[r].status,
    confidence |-> RoundPercent(recordings[r].confidenceScore),
    \* typeof d.aiConfidence === 'number' ? ... : the confidenceScore
    aiConfidence |-> IF recordings[r].aiConfidence # Undefined
                     THEN RoundPercent(recordings[r].aiConfidence)
                     ELSE RoundPercent(recordings[r].confidenceScore),
    notes |-> recordings[r].notes,
    lat |-> recordings[r].lat,
    \* d.locationCity || (lat && lon ? `${lat.toFixed(2)}, ${lon.toFixed(2)}` : 'Unknown Location')
    locationCity |-> IF recordings[r].locationCity # "" THEN recordings[r].locationCity
                     ELSE IF recordings[r].lat # 0 THEN CoordText(recordings[r].lat)
                     ELSE "Unknown Location",
    \* ts?.toDate?.(): undefined while the server has not set the timestamp
    timestampMs |-> recordings[r].timestampMs,
    recordingNumber |-> 0 ]

\* the row of the History view: its date is d.timestamp, or else the date
\* d.timestamp_iso parses to
HistRow(r) ==
  [ Row(r) EXCEPT !.timestampMs = IF @ # Undefined THEN @ ELSE recordings[r].timestampIso ]

\* DataProvider.parseRecording: the fields of a row of the shared context
ParseRecording(r) ==
  [ recordingId |-> r,
    userId |-> recordings[r].userId,
    status |-> recordings[r].status,
    confidence |-> RoundPercent(recordings[r].confidenceScore),
    \* typeof data.aiConfidence === 'number' ? ... : the confidenceScore
    aiConfidence |-> IF recordings[r].aiConfidence # Undefined
                     THEN RoundPercent(recordings[r].aiConfidence)
                     ELSE RoundPercent(recordings[r].confidenceScore),
    locationCity |-> IF recordings[r].locationCity # "" THEN recordings[r].locationCity
                     ELSE "Unknown Location",
    \* ts?.toDate?.() || new Date()
    timestampMs |-> IF recordings[r].timestampMs # Undefined
                    THEN recordings[r].timestampMs ELSE ServerTime ]

\* UsersScreen.loadUserRecordings: the row of the admin's user list;
\* confidence is userConfidence ?? aiConfidence, with userConfidence read from
\* data.confidence and aiConfidence from data.aiConfidence ?? data.confidenceScore
UserRecordingRow(r) ==
  LET aiConfidenceRaw == IF recordings[r].aiConfidence # Undefined
                         THEN recordings[r].aiConfidence
                         ELSE recordings[r].confidenceScore
  IN [ recordingId |-> r,
       status |-> recordings[r].status,
       confidence |-> IF recordings[r].confidence # Undefined
                      THEN RoundPercent(recordings[r].confidence)
                      ELSE RoundPercent(aiConfidenceRaw),
       aiConfidence |-> RoundPercent(aiConfidenceRaw) ]

\* the rows pushed for snap.docs, in the order of the query result
Rows(uid) == [ i \in 1 .. Cardinality(OwnedBy(uid)) |-> Row(SetToSeq(OwnedBy(uid))[i]) ]

\* x ?? 0
OrZero(x) == IF x = Undefined THEN 0 ELSE x

RECURSIVE SortDesc(_)
\* rows.sort((a, b) => (b.timestampMs ?? 0) - (a.timestampMs ?? 0)): newest
\* first, rows of equal time keep their order
SortDesc(rows) ==
  IF Len(rows) = 0 THEN << >>
  ELSE LET i == CHOOSE k \in 1 .. Len(rows) :
                  /\ \A j \in 1 .. Len(rows) :
                        OrZero(rows[k].timestampMs) >= OrZero(rows[j].timestampMs)
                  /\ \A j \in 1 .. (k - 1) :
                        OrZero(rows[j].timestampMs) < OrZero(rows[k].timestampMs)
       IN << rows[i] >> \o SortDesc([ j \in 1 .. (Len(rows) - 1) |->
                                         IF j < i THEN rows[j] ELSE rows[j + 1] ])

\* rows.forEach((r, idx) => { r.recordingNumber = idx + 1 }), and the Map
\* view's recordingNumber: index++ while it pushes the rows
Renumber(rows) == [ i \in 1 .. Len(rows) |-> [ rows[i] EXCEPT !.recordingNumber = i ] ]

\* the list the History snapshot callback sets: sorted, then renumbered
HistRows(uid) ==
  Renumber(SortDesc([ i \in 1 .. Cardinality(OwnedBy(uid)) |->
                        HistRow(SetToSeq(OwnedBy(uid))[i]) ]))
\* the list the Map snapshot callback sets: numbered in the order of snap.docs
MapRows(uid) == Renumber(Rows(uid))
\* the list the DataProvider snapshot callback sets: parsed, then sorted
ContextRows(uid) ==
  SortDesc([ i \in 1 .. Cardinality(OwnedBy(uid)) |->
               ParseRecording(SetToSeq(OwnedBy(uid))[i]) ])
NoRow == [ recordingId |-> NoRec ]
NoEdit == [ from |-> "none" ]
RowIds(rows) == { rows[i].recordingId : i \in 1 .. Len(rows) }
RowOf(rows, r) == rows[CHOOSE i \in 1 .. Len(rows) : rows[i].recordingId = r]

\* listening: the users whose query has a snapshot listener of the view
InitHist == [ listening |-> {}, loading |-> FALSE, recordings |-> << >>,
              errorText |-> "", expandedId |-> NoRec, editMode |-> NoRec,
              isSaving |-> FALSE, searchQuery |-> "" ]
\* `null`, where a Date is expected
NoDate == 0 - 1
\* picker: the filter modal that is open (showDatePicker, showSpeciesPicker)
InitMap == [ listening |-> {}, loading |-> FALSE, recordings |-> << >>,
             selectedRecording |-> NoRow, expandedRecording |-> NoRow,
             editMode |-> FALSE, isSaving |-> FALSE,
             selectedSpecies |-> {}, startDate |-> NoDate, endDate |-> NoDate,
             selectingStartDate |-> TRUE, picker |-> "none" ]
\* DataProvider: myRecordings, myRecordingsLoading and its listener
InitCtx == [ listening |-> {}, loading |-> FALSE, recordings |-> << >> ]

\* variant of the auth callback that leaves the previous listener subscribed
UnsubscribedNot(listening) == listening

\* the auth callback's `if (offSnap) { offSnap(); offSnap = undefined; }`, and
\* the effect cleanup's `offSnap?.()`: the listeners that remain
Unsubscribed(listening) == {}



\* needsGeocode: the rows whose locationCity is a bare pair of coordinates
NeedsGeocodeRow(r) ==
  IncludesComma(r.locationCity) /\ ~IncludesSpace(r.locationCity) /\ r.lat # 0
NeedsGeocode(rows) == SelectSeq(rows, NeedsGeocodeRow)

RECURSIVE LookupAll(_, _, _, _)
\* needsGeocode.map(async (r) => ...): every row's getCityFromCoords runs up to
\* its fetch before any answer arrives
LookupAll(g, screen, rows, b) ==
  IF Len(rows) = 0 THEN g
  ELSE LookupAll(Lookup(g, screen, Head(rows).lat, Head(rows).recordingId, b),
                 screen, Tail(rows), b)

\* the background geocoding a snapshot callback starts for its rows
StartBatch(g, screen, rows) ==
  IF Len(NeedsGeocode(rows)) = 0 THEN g
  ELSE LookupAll([ g EXCEPT !.batches = @ \cup { [ id |-> g.n + 1, screen |-> screen,
                                                   size |-> Len(NeedsGeocode(rows)),
                                                   results |-> {} ] } ],
                 screen, NeedsGeocode(rows), g.n + 1)


\* what the user typed into the edit form
EditSpeciesInputs == {"Wood Frog"}
EditConfidenceInputs == {"", "0", "60", "150", "abc"}
NaN == 0 - 1
\* parseInt(text, 10) / parseFloat(text) on the inputs above
ParseNumber(text) ==
  CASE text = "0" -> 0
    [] text = "60" -> 60
    [] text = "150" -> 150
    [] OTHER -> NaN

\* HistoryScreen.handleResubmit: the validation that rejects the edit
HistConfidenceInvalid(text) ==
  /\ text # ""
  /\ (ParseNumber(text) = NaN \/ ParseNumber(text) < 0 \/ ParseNumber(text) > 100)

\* variant whose resubmission writes the status 'approved'
HistUpdatesApprove(species, text, notes) ==
  [ species |-> species, predictedSpecies |-> species, notes |-> notes,
    status |-> "approved",
    setConfidence |-> (text # "" /\ ParseNumber(text) # NaN),
    confidenceScore |-> (ParseNumber(text) * Scale) \div 100 ]

\* HistoryScreen.handleResubmit: the `updates` object
HistUpdates(species, text, notes) ==
  [ species |-> species, predictedSpecies |-> species, notes |-> notes,
    status |-> "needs_review",
    setConfidence |-> (text # "" /\ ParseNumber(text) # NaN),
    confidenceScore |-> (ParseNumber(text) * Scale) \div 100 ]

\* MapHistoryScreen.handleSaveEdits: the `updates` object
MapUpdates(species, text, notes) ==
  [ species |-> species, notes |-> notes,
    setConfidence |-> (ParseNumber(text) # NaN /\ ParseNumber(text) >= 0
                         /\ ParseNumber(text) <= 100),
    confidenceScore |-> (ParseNumber(text) * Scale) \div 100 ]

\* variant of the write that also replaces the AI confidence
ApplyHistUpdatesAi(d, u) ==
  [ d EXCEPT !.species = u.species, !.predictedSpecies = u.predictedSpecies,
             !.notes = u.notes, !.status = u.status,
             !.confidenceScore = IF u.setConfidence THEN u.confidenceScore ELSE @,
             !.aiConfidence = IF u.setConfidence THEN u.confidenceScore ELSE @ ]

\* updateDoc(recordingRef, updates) of the History view applied to a document
ApplyHistUpdates(d, u) ==
  [ d EXCEPT !.species = u.species, !.predictedSpecies = u.predictedSpecies,
             !.notes = u.notes, !.status = u.status,
             !.confidenceScore = IF u.setConfidence THEN u.confidenceScore ELSE @ ]

\* updateDoc(recordingRef, updates) of the Map view applied to a document
ApplyMapUpdates(d, u) ==
  [ d EXCEPT !.species = u.species, !.notes = u.notes,
             !.confidenceScore = IF u.setConfidence THEN u.confidenceScore ELSE @ ]

\* Array.prototype.filter: the rows at the indices in Keep, in their order
RECURSIVE FilterRows(_, _)
FilterRows(rows, Keep) ==
  IF Len(rows) = 0 THEN << >>
  ELSE FilterRows(SubSeq(rows, 1, Len(rows) - 1), Keep)
         \o (IF Len(rows) \in Keep THEN << rows[Len(rows)] >> ELSE << >>)

\* what the user may type into the History view's search box
SearchQueries == {"", " ", "bullfrog", "WOOD", "lake", "toad"}
LakeName == "Bullfrog Lake"

\* a string as the sequence of its characters, for the strings that occur
Chars(text) ==
  CASE text = "" -> << >>
    [] text = " " -> << " " >>
    [] text = "bullfrog" -> << "b", "u", "l", "l", "f", "r", "o", "g" >>
    [] text = "WOOD" -> << "W", "O", "O", "D" >>
    [] text = "lake" -> << "l", "a", "k", "e" >>
    [] text = "toad" -> << "t", "o", "a", "d" >>
    [] text = "Bullfrog" -> << "B", "u", "l", "l", "f", "r", "o", "g" >>
    [] text = "Wood Frog" -> << "W", "o", "o", "d", " ", "F", "r", "o", "g" >>
    [] text = LakeName ->
         << "B", "u", "l", "l", "f", "r", "o", "g", " ", "L", "a", "k", "e" >>
    [] text = PlaceName ->
         << "A", "n", "n", " ", "A", "r", "b", "o", "r", ",", " ",
            "M", "i", "c", "h", "i", "g", "a", "n" >>

\* String.prototype.toLowerCase on the letters that occur
LowerChar(c) ==
  CASE c = "A" -> "a" [] c = "B" -> "b" [] c = "D" -> "d" [] c = "F" -> "f"
    [] c = "L" -> "l" [] c = "M" -> "m" [] c = "O" -> "o" [] c = "W" -> "w"
    [] c = "H" -> "h" [] c = "T" -> "t" [] c = "P" -> "p" [] c = "S" -> "s"
    [] OTHER -> c
ToLowerCase(chars) == [ i \in 1 .. Len(chars) |-> LowerChar(chars[i]) ]

\* String.prototype.includes
Includes(chars, sub) ==
  \E i \in 0 .. (Len(chars) - Len(sub)) : SubSeq(chars, i + 1, i + Len(sub)) = sub

RECURSIVE Trim(_)
\* String.prototype.trim
Trim(chars) ==
  IF Len(chars) = 0 THEN chars
  ELSE IF Head(chars) = " " THEN Trim(Tail(chars))
  ELSE IF chars[Len(chars)] = " " THEN Trim(SubSeq(chars, 1, Len(chars) - 1))
  ELSE chars

\* variant that matches the species the row shows: rec.species || rec.predictedSpecies
MatchedSpeciesShown(rec) == IF rec.species # "" THEN rec.species ELSE rec.predictedSpecies

\* the species field the History filter reads
MatchedSpecies(rec) == rec.predictedSpecies

\* HistoryScreen.filteredRecordings
HistFilteredRecordings(rows, searchQuery) ==
  IF Len(Trim(Chars(searchQuery))) = 0 THEN rows
  ELSE FilterRows(rows,
         { i \in 1 .. Len(rows) :
             \/ Includes(ToLowerCase(Chars(MatchedSpecies(rows[i]))),
                         ToLowerCase(Chars(searchQuery)))
             \/ Includes(ToLowerCase(Chars(rows[i].locationCity)),
                         ToLowerCase(Chars(searchQuery))) })

\* onSnapshot callback of the HistoryScreen
HistSnapshot(u) ==
  /\ u \in hist.listening
  /\ geo.n + Len(NeedsGeocode(HistRows(u))) <= MaxLookups
  /\ hist' = [hist EXCEPT
       !.recordings = IF currentUser = NoUser THEN << >>
                      ELSE ThenPatch(StartBatch(geo, "history", HistRows(u)).batches,
                                     "history", HistRows(u)),
       !.loading = FALSE]
  /\ geo' = IF currentUser = NoUser THEN geo
            ELSE Resolved(StartBatch(geo, "history", HistRows(u)))
  /\ UNCHANGED << map, edits, lastEdit, nEdits, authVars, userDocs, storeVars,
                  mounted, home, nav, reg, pred, data, calc, ctx, predVars, reviewVars, usersVars >>

\* the error callback of the HistoryScreen's onSnapshot
HistSnapshotError(u) ==
  /\ u \in hist.listening
  /\ hist' = [hist EXCEPT
       !.errorText = IF currentUser # NoUser THEN "permission-denied" ELSE @,
       !.recordings = << >>,
       !.loading = FALSE]
  /\ UNCHANGED << map, edits, lastEdit, nEdits, authVars, userDocs, storeVars, envVars,
                  predVars, reviewVars, usersVars >>

\* HistoryScreen.handleExpand, a tap on the card of a rendered item (an item
\* of the FlatList, whose data is filteredRecordings): the card is expanded
\* or collapsed, and edit mode is left
HistExpand(r) ==
  /\ "history" \in mounted
  /\ ~hist.loading
  /\ r \in RowIds(HistFilteredRecordings(hist.recordings, hist.searchQuery))
  /\ hist' = [hist EXCEPT !.expandedId = IF hist.expandedId = r THEN NoRec ELSE r,
                          !.editMode = NoRec]
  /\ UNCHANGED << map, edits, lastEdit, nEdits, authVars, userDocs, storeVars, envVars,
                  predVars, reviewVars, usersVars >>

\* HistoryScreen.handleEdit, the edit button of a rendered item, which the
\* item shows while it is expanded
HistEdit(r) ==
  /\ "history" \in mounted
  /\ ~hist.loading
  /\ r \in RowIds(HistFilteredRecordings(hist.recordings, hist.searchQuery))
  /\ hist.expandedId = r
  /\ hist' = [hist EXCEPT !.editMode = IF hist.editMode = r THEN NoRec ELSE r]
  /\ UNCHANGED << map, edits, lastEdit, nEdits, authVars, userDocs, storeVars, envVars,
                  predVars, reviewVars, usersVars >>

OwnerOf(r) == IF r \in Existing THEN recordings[r].userId ELSE NoUser

\* HistoryScreen.handleResubmit up to await updateDoc
HistResubmitTap(r, species, text, notes) ==
  /\ "history" \in mounted
  /\ ~hist.loading /\ ~hist.isSaving
  /\ r \in RowIds(HistFilteredRecordings(hist.recordings, hist.searchQuery))
  /\ hist.expandedId = r
  /\ hist.editMode = r
  /\ IF HistConfidenceInvalid(text)
     THEN UNCHANGED << hist, edits, lastEdit, nEdits >>
     ELSE /\ nEdits < MaxEdits
          /\ hist' = [hist EXCEPT !.isSaving = TRUE]
          /\ edits' = edits \cup { [ id |-> nEdits + 1, from |-> "history", target |-> r,
                                     row |-> RowOf(hist.recordings, r), text |-> text,
                                     updates |-> HistUpdates(species, text, notes) ] }
          /\ nEdits' = nEdits + 1
          /\ lastEdit' = [ from |-> "history", target |-> r,
                           owner |-> OwnerOf(r), actor |-> currentUser ]
  /\ UNCHANGED << map, authVars, userDocs, storeVars, envVars, predVars, reviewVars, usersVars >>

\* the local patch handleResubmit applies to its list after the write
HistPatch(rows, r, u, confidenceNum) ==
  [ i \in 1 .. Len(rows) |->
      IF rows[i].recordingId = r
      THEN [ rows[i] EXCEPT !.species = u.species, !.predictedSpecies = u.predictedSpecies,
                            !.notes = u.notes, !.status = "needs_review",
                            \* confidence: confidenceNum || rec.confidence
                            !.confidence = IF confidenceNum # NaN /\ confidenceNum # 0
                                           THEN confidenceNum ELSE @ ]
      ELSE rows[i] ]

\* updateDoc of handleResubmit settles
HistResubmitDone(e, ok) ==
  /\ e \in edits /\ e.from = "history"
  /\ edits' = edits \ {e}
  /\ IF ok /\ e.target \in Existing
     THEN /\ recordings' = [recordings EXCEPT ![e.target] = ApplyHistUpdates(@, e.updates)]
          /\ ghost' = [ghost EXCEPT ![e.target].resubmits = @ + 1,
                                    ![e.target].resubmittedFrom = recordings[e.target].status,
                                    ![e.target].override =
                                       IF e.updates.setConfidence THEN ParseNumber(e.text) ELSE @]
          /\ hist' = [hist EXCEPT !.recordings = HistPatch(@, e.target, e.updates, ParseNumber(e.text)),
                                  !.editMode = NoRec, !.isSaving = FALSE]
     ELSE /\ hist' = [hist EXCEPT !.isSaving = FALSE]
          /\ UNCHANGED << recordings, ghost >>
  /\ UNCHANGED << map, lastEdit, nEdits, authVars, userDocs, envVars, predVars, reviewVars, usersVars >>

\* onSnapshot callback of the MapHistoryScreen
MapSnapshot(u) ==
  /\ u \in map.listening
  /\ geo.n + Len(NeedsGeocode(MapRows(u))) <= MaxLookups
  /\ map' = [map EXCEPT
       !.recordings = IF currentUser = NoUser THEN << >>
                      ELSE ThenPatch(StartBatch(geo, "map", MapRows(u)).batches,
                                     "map", MapRows(u)),
       !.loading = FALSE]
  /\ geo' = IF currentUser = NoUser THEN geo
            ELSE Resolved(StartBatch(geo, "map", MapRows(u)))
  /\ UNCHANGED << hist, edits, lastEdit, nEdits, authVars, userDocs, storeVars,
                  mounted, home, nav, reg, pred, data, calc, ctx, predVars, reviewVars, usersVars >>

\* the error callback of the MapHistoryScreen's onSnapshot
MapSnapshotError(u) ==
  /\ u \in map.listening
  /\ map' = [map EXCEPT !.recordings = << >>, !.loading = FALSE]
  /\ UNCHANGED << hist, edits, lastEdit, nEdits, authVars, userDocs, storeVars, envVars,
                  predVars, reviewVars, usersVars >>

\* onSnapshot callback of the DataProvider's my-recordings listener
CtxSnapshot(u) ==
  /\ u \in ctx.listening
  /\ ctx' = [ctx EXCEPT !.recordings = ContextRows(u), !.loading = FALSE]
  /\ UNCHANGED << mounted, home, nav, reg, pred, data, calc, geo, authVars, userDocs, storeVars, predVars, viewVars,
                  reviewVars, usersVars >>

\* the error callback of the DataProvider's onSnapshot
CtxSnapshotError(u) ==
  /\ u \in ctx.listening
  /\ ctx' = [ctx EXCEPT !.loading = FALSE]
  /\ UNCHANGED << mounted, home, nav, reg, pred, data, calc, geo, authVars, userDocs, storeVars, predVars, viewVars,
                  reviewVars, usersVars >>


\* the effect cleanup of a recordings view: offSnap?.(); offAuth?.()
Unmount(screen) ==
  /\ screen \in mounted
  /\ mounted' = mounted \ {screen}
  /\ hist' = IF screen = "history"
             THEN [hist EXCEPT !.listening = Unsubscribed(@)] ELSE hist
  /\ map' = IF screen = "map"
            THEN [map EXCEPT !.listening = Unsubscribed(@)] ELSE map
  /\ ctx' = IF screen = "context"
            THEN [ctx EXCEPT !.listening = Unsubscribed(@)] ELSE ctx
  /\ UNCHANGED << home, nav, reg, pred, data, calc, geo, edits, lastEdit, nEdits, authVars, userDocs, storeVars,
                  predVars, reviewVars, usersVars >>

(* ------------------------------ filters -------------------------------- *)
\* time is counted in ticks (milliseconds in the code); a day has DayTicks of
\* them, and the calendar offers the days 0 .. MaxDay
DayTicks == 3
MaxDay == 2
\* new Date(currentYear, currentMonth, i): the first instant of a day
CalendarDates == { d * DayTicks : d \in 0 .. MaxDay }
FilterTimes == 0 .. ((MaxDay + 1) * DayTicks - 1)

\* variant that compares with the end date itself
EndOfDayMidnight(endDate) == endDate

\* endOfDay = new Date(endDate); endOfDay.setHours(23, 59, 59, 999)
EndOfDay(endDate) == (endDate \div DayTicks) * DayTicks + (DayTicks - 1)

\* allSpeciesOptions
AllSpeciesOptions ==
  { "Bullfrog", "Green Frog", "Northern Spring Peeper", "Northern Leopard Frog",
    "Eastern Gray Treefrog", "Wood Frog", "American Toad", "Midland Chorus Frog" }

\* the species whose checkbox the user toggles in the picker
ToggledSpecies == {"Bullfrog", "Wood Frog"}

\* variant that applies the allow-set also when it is empty
PassesSpeciesStrict(selectedSpecies, rec) == rec.predictedSpecies \in selectedSpecies

\* !(selectedSpecies.size > 0 && !selectedSpecies.has(rec.predictedSpecies))
PassesSpecies(selectedSpecies, rec) ==
  ~(Cardinality(selectedSpecies) > 0 /\ rec.predictedSpecies \notin selectedSpecies)

\* the two date tests of filteredRecordings: each applies to a row that
\* has a timestamp (startDate && rec.timestamp && ..., endDate && rec.timestamp)
PassesDate(startDate, endDate, rec) ==
  /\ ~(startDate # NoDate /\ rec.timestampMs # Undefined /\ rec.timestampMs < startDate)
  /\ ~(endDate # NoDate /\ rec.timestampMs # Undefined
         /\ rec.timestampMs > EndOfDay(endDate))

\* MapHistoryScreen.filteredRecordings
MapFilteredRecordings(rows, selectedSpecies, startDate, endDate) ==
  FilterRows(rows, { i \in 1 .. Len(rows) :
                       /\ PassesSpecies(selectedSpecies, rows[i])
                       /\ PassesDate(startDate, endDate, rows[i]) })

\* handleMarkerPress on a marker: the screen renders one for each row of
\* filteredRecordings, once loading is false
MapMarkerPress(r) ==
  /\ "map" \in mounted
  /\ ~map.loading /\ map.picker = "none"
  /\ r \in RowIds(MapFilteredRecordings(map.recordings, map.selectedSpecies,
                                         map.startDate, map.endDate))
  /\ map' = [map EXCEPT !.selectedRecording = RowOf(map.recordings, r),
                        !.expandedRecording = NoRow, !.editMode = FALSE]
  /\ UNCHANGED << hist, edits, lastEdit, nEdits, authVars, userDocs, storeVars, envVars,
                  predVars, reviewVars, usersVars >>

\* handleCardPress on the collapsed card
MapCardPress ==
  /\ "map" \in mounted
  /\ ~map.loading
  /\ map.selectedRecording # NoRow /\ map.expandedRecording = NoRow
  /\ map' = [map EXCEPT !.expandedRecording = map.selectedRecording, !.editMode = FALSE]
  /\ UNCHANGED << hist, edits, lastEdit, nEdits, authVars, userDocs, storeVars, envVars,
                  predVars, reviewVars, usersVars >>

\* the backdrop and the X of the collapsed card: setSelectedRecording(null)
MapDismiss ==
  /\ "map" \in mounted
  /\ ~map.loading
  /\ map.selectedRecording # NoRow /\ map.expandedRecording = NoRow
  /\ map' = [map EXCEPT !.selectedRecording = NoRow]
  /\ UNCHANGED << hist, edits, lastEdit, nEdits, authVars, userDocs, storeVars, envVars,
                  predVars, reviewVars, usersVars >>

\* handleClose of the expanded card
MapClose ==
  /\ "map" \in mounted
  /\ ~map.loading
  /\ map.expandedRecording # NoRow
  /\ map' = [map EXCEPT !.expandedRecording = NoRow, !.editMode = FALSE]
  /\ UNCHANGED << hist, edits, lastEdit, nEdits, authVars, userDocs, storeVars, envVars,
                  predVars, reviewVars, usersVars >>

\* MapHistoryScreen.handleResubmit: an alert, and nothing else
MapResubmitTap ==
  /\ "map" \in mounted
  /\ ~map.loading
  /\ map.expandedRecording # NoRow
  /\ UNCHANGED vars

\* handleEdit of the expanded card: enter edit mode, or handleSaveEdits up to
\* await updateDoc
MapEditTap(species, text, notes) ==
  /\ "map" \in mounted
  /\ ~map.loading
  /\ map.expandedRecording # NoRow
  /\ ~map.isSaving
  /\ IF ~map.editMode
     THEN /\ map' = [map EXCEPT !.editMode = TRUE]
          /\ UNCHANGED << edits, lastEdit, nEdits >>
     ELSE /\ nEdits < MaxEdits
          /\ map' = [map EXCEPT !.isSaving = TRUE]
          /\ edits' = edits \cup { [ id |-> nEdits + 1, from |-> "map",
                                     target |-> map.expandedRecording.recordingId,
                                     row |-> map.expandedRecording, text |-> text,
                                     updates |-> MapUpdates(species, text, notes) ] }
          /\ nEdits' = nEdits + 1
          /\ lastEdit' = [ from |-> "map", target |-> map.expandedRecording.recordingId,
                           owner |-> OwnerOf(map.expandedRecording.recordingId),
                           actor |-> currentUser ]
  /\ UNCHANGED << hist, authVars, userDocs, storeVars, envVars, predVars, reviewVars, usersVars >>

\* updateDoc of handleSaveEdits settles
MapSaveDone(e, ok) ==
  /\ e \in edits /\ e.from = "map"
  /\ edits' = edits \ {e}
  /\ IF ok /\ e.target \in Existing
     THEN /\ recordings' = [recordings EXCEPT ![e.target] = ApplyMapUpdates(@, e.updates)]
          /\ ghost' = [ghost EXCEPT ![e.target].override =
                                       IF e.updates.setConfidence THEN ParseNumber(e.text) ELSE @]
          /\ map' = [map EXCEPT
               !.expandedRecording =
                  [ e.row EXCEPT !.species = e.updates.species,
                                 !.predictedSpecies = e.updates.species,
                                 !.confidence = ParseNumber(e.text),
                                 !.notes = e.updates.notes ],
               !.editMode = FALSE, !.isSaving = FALSE]
     ELSE /\ map' = [map EXCEPT !.isSaving = FALSE]
          /\ UNCHANGED << recordings, ghost >>
  /\ UNCHANGED << hist, lastEdit, nEdits, authVars, userDocs, envVars, predVars, reviewVars, usersVars >>

(* --------------------------- filter actions ---------------------------- *)
\* toggleSpecies
ToggleSpecies(species) ==
  /\ "map" \in mounted
  /\ ~map.loading /\ map.picker = "species"
  /\ map' = [map EXCEPT !.selectedSpecies =
                IF species \in @ THEN @ \ {species} ELSE @ \cup {species}]
  /\ UNCHANGED << hist, edits, lastEdit, nEdits, authVars, userDocs, storeVars, envVars,
                  predVars, reviewVars, usersVars >>

\* clearAllSpecies
ClearAllSpecies ==
  /\ "map" \in mounted
  /\ ~map.loading /\ map.picker = "species"
  /\ map' = [map EXCEPT !.selectedSpecies = {}]
  /\ UNCHANGED << hist, edits, lastEdit, nEdits, authVars, userDocs, storeVars, envVars,
                  predVars, reviewVars, usersVars >>

\* selectAllSpecies
SelectAllSpecies ==
  /\ "map" \in mounted
  /\ ~map.loading /\ map.picker = "species"
  /\ map' = [map EXCEPT !.selectedSpecies = AllSpeciesOptions]
  /\ UNCHANGED << hist, edits, lastEdit, nEdits, authVars, userDocs, storeVars, envVars,
                  predVars, reviewVars, usersVars >>

\* the date filter button, shown while no card is: setShowDatePicker(true);
\* setSelectingStartDate(true)
OpenDatePicker ==
  /\ "map" \in mounted
  /\ ~map.loading /\ map.picker = "none" /\ map.selectedRecording = NoRow
  /\ map' = [map EXCEPT !.selectingStartDate = TRUE, !.picker = "date"]
  /\ UNCHANGED << hist, edits, lastEdit, nEdits, authVars, userDocs, storeVars, envVars,
                  predVars, reviewVars, usersVars >>

\* the species filter button, shown while no card is: setShowSpeciesPicker(true)
OpenSpeciesPicker ==
  /\ "map" \in mounted
  /\ ~map.loading /\ map.picker = "none" /\ map.selectedRecording = NoRow
  /\ map' = [map EXCEPT !.picker = "species"]
  /\ UNCHANGED << hist, edits, lastEdit, nEdits, authVars, userDocs, storeVars, envVars,
                  predVars, reviewVars, usersVars >>

\* the close, Apply and Done buttons and the background of a filter modal:
\* setShowDatePicker(false), setShowSpeciesPicker(false)
ClosePicker ==
  /\ "map" \in mounted
  /\ ~map.loading /\ map.picker # "none"
  /\ map' = [map EXCEPT !.picker = "none"]
  /\ UNCHANGED << hist, edits, lastEdit, nEdits, authVars, userDocs, storeVars, envVars,
                  predVars, reviewVars, usersVars >>

\* handleDateSelect
HandleDateSelect(date) ==
  /\ "map" \in mounted
  /\ ~map.loading /\ map.picker = "date"
  /\ map' = IF map.selectingStartDate
            THEN [map EXCEPT !.startDate = date, !.selectingStartDate = FALSE]
            ELSE [map EXCEPT !.endDate = date]
  /\ UNCHANGED << hist, edits, lastEdit, nEdits, authVars, userDocs, storeVars, envVars,
                  predVars, reviewVars, usersVars >>

\* the Clear button of the date modal: clearDateFilter(); setShowDatePicker(false)
ClearDateFilter ==
  /\ "map" \in mounted
  /\ ~map.loading /\ map.picker = "date"
  /\ map' = [map EXCEPT !.startDate = NoDate, !.endDate = NoDate,
                        !.selectingStartDate = TRUE, !.picker = "none"]
  /\ UNCHANGED << hist, edits, lastEdit, nEdits, authVars, userDocs, storeVars, envVars,
                  predVars, reviewVars, usersVars >>

\* onChangeText={setSearchQuery} of the search box, which the screen shows
\* once it is not loading
SetSearchQuery(text) ==
  /\ "history" \in mounted
  /\ ~hist.loading
  /\ hist' = [hist EXCEPT !.searchQuery = text]
  /\ UNCHANGED << map, edits, lastEdit, nEdits, authVars, userDocs, storeVars, envVars,
                  predVars, reviewVars, usersVars >>

(* ------------------- DataProvider: the pre-fetched lists --------------- *)
\* Promise.all calls of the initial-load effect that may be in flight at once
MaxDataLoads == 3

\* useState([]) allUsers, useState([]) allRecordings, useState(false)
\* initialLoadComplete, useState(null) currentUserId; loads: the bag of the
\* Promise.all calls in flight; usersFrom, recordingsFrom, completeFrom: the
\* session ("current" or "old") of the load that set the value, or "none"
InitData ==
  [ currentUserId |-> NoUser, allUsers |-> {}, allRecordings |-> << >>,
    initialLoadComplete |-> FALSE, loads |-> EmptyBag,
    usersFrom |-> "none", recordingsFrom |-> "none", completeFrom |-> "none" ]

\* a Promise.all([loadAllUsers(), loadAllRecordings()]) up to the first await
\* of each: users is where loadAllUsers stands ("docs", "counts", "done"),
\* left the documents it has still to count, rows the rows it has built;
\* initial: whether it is the Promise.all of the initial-load effect (a
\* refresh is one of the two loads, called on its own)
NewLoad ==
  [ session |-> "current", users |-> "docs", left |-> {}, rows |-> {},
    recordings |-> FALSE, initial |-> TRUE ]

\* what remains of the session of the previous actor after an auth change
Aged(from) == IF from = "current" THEN "old" ELSE from
AgedLoad(l) == [ l EXCEPT !.session = "old" ]
AgedLoads(loads) ==
  [ o \in { AgedLoad(l) : l \in BagToSet(loads) } |->
      CopiesIn(o, loads) + CopiesIn([ o EXCEPT !.session = "current" ], loads) ]

\* variant of the load whose setters run only in the session that started it
LoadSetsGuarded(l) == l.session = "current"

\* the setters of a load run whatever the session is by then
LoadSets(l) == TRUE

\* the auth listener's setCurrentUserId(user.uid), then the initial-load
\* effect: a Promise.all of the two loads when initialLoadComplete is false
DataSignedIn(d, u) ==
  [ d EXCEPT !.currentUserId = u,
             !.usersFrom = Aged(@), !.recordingsFrom = Aged(@), !.completeFrom = Aged(@),
             !.loads = IF d.initialLoadComplete THEN AgedLoads(@)
                       ELSE AgedLoads(@) (+) SetToBag({NewLoad}) ]

\* setCurrentUserId(null), then the reset effect
DataSignedOut(d) ==
  [ d EXCEPT !.currentUserId = NoUser,
             !.allUsers = {}, !.allRecordings = << >>, !.initialLoadComplete = FALSE,
             !.usersFrom = "none", !.recordingsFrom = "none", !.completeFrom = "none",
             !.loads = AgedLoads(@) ]

(* ------------------------------- auth ---------------------------------- *)
\* calls of the UsersScreen's auth callback that may be in flight at once
MaxChecks == 2
\* the calls of the UsersScreen's auth callback that have not settled: at the
\* admin check, or in loadUsers
ChecksInFlight(s) == BagCardinality(s.checking) + BagCardinality(s.loads)

\* handleLogin: signInWithEmailAndPassword has resolved with cred.user; the
\* call stays busy (setBusy(true) ... finally setBusy(false)) until it has
\* routed, and the login button is disabled meanwhile
LoginStarted(n, u) == [n EXCEPT !.loginPending = @ (+) SetToBag({u})]

\* signInWithEmailAndPassword succeeds; every mounted screen's
\* onAuthStateChanged callback runs with the new user
AuthUser(u) ==
  /\ ("contextLoad" \in mounted /\ ~data.initialLoadComplete)
        => BagCardinality(data.loads) < MaxDataLoads
  /\ "users" \in mounted => ChecksInFlight(us) < MaxChecks
  \* the login button is disabled while a call of handleLogin is busy
  /\ "login" \in mounted => nav.loginPending = EmptyBag
  /\ currentUser' = u
  /\ hist' = IF "history" \in mounted
             THEN [hist EXCEPT !.listening = Unsubscribed(@) \cup {u}, !.loading = TRUE,
                               !.errorText = ""]
             ELSE hist
  /\ map' = IF "map" \in mounted
            THEN [map EXCEPT !.listening = Unsubscribed(@) \cup {u}, !.loading = TRUE]
            ELSE map
  /\ ctx' = IF "context" \in mounted
            THEN [ctx EXCEPT !.listening = Unsubscribed(@) \cup {u}, !.loading = TRUE]
            ELSE ctx
  /\ us' = IF "users" \in mounted THEN [us EXCEPT !.checking = @ (+) SetToBag({u})] ELSE us
  /\ data' = IF "contextLoad" \in mounted THEN DataSignedIn(data, u) ELSE data
  /\ UNCHANGED << userDocs, storeVars, mounted, home, pred, calc, geo, predVars, edits, lastEdit,
                  nEdits, reviewVars, roleOps, lastRoleWrite, nRoleWrites >>

SignIn(u) ==
  /\ currentUser = NoUser
  /\ AuthUser(u)
  /\ nav' = IF "login" \in mounted THEN LoginStarted(nav, u) ELSE nav
  /\ UNCHANGED reg

\* another account signs in while one is signed in: the callbacks run once,
\* with the new user
SwitchUser(u) ==
  /\ currentUser # NoUser
  /\ currentUser # u
  /\ AuthUser(u)
  /\ nav' = IF "login" \in mounted THEN LoginStarted(nav, u) ELSE nav
  /\ UNCHANGED reg

\* handleLogin by the account that is signed in already:
\* signInWithEmailAndPassword resolves with the same uid, no
\* onAuthStateChanged callback runs, and the handler goes on to its getDoc
LoginSameUser(u) ==
  /\ "login" \in mounted
  /\ currentUser = u
  /\ nav.loginPending = EmptyBag
  /\ nav' = LoginStarted(nav, u)
  /\ UNCHANGED << mounted, home, reg, pred, data, calc, geo, ctx, authVars, userDocs, storeVars,
                  predVars, viewVars, reviewVars, usersVars >>

\* signOut (or the session ends); every mounted screen's onAuthStateChanged
\* callback runs with null
SignOut ==
  /\ currentUser # NoUser
  /\ currentUser' = NoUser
  /\ hist' = IF "history" \in mounted
             THEN [hist EXCEPT !.listening = Unsubscribed(@), !.recordings = << >>,
                               !.loading = FALSE]
             ELSE hist
  /\ map' = IF "map" \in mounted
            THEN [map EXCEPT !.listening = Unsubscribed(@), !.recordings = << >>,
                             !.loading = FALSE]
            ELSE map
  /\ ctx' = IF "context" \in mounted
            THEN [ctx EXCEPT !.listening = Unsubscribed(@), !.recordings = << >>,
                             !.loading = FALSE]
            ELSE ctx
  /\ us' = IF "users" \in mounted THEN [us EXCEPT !.shown = FALSE] ELSE us
  /\ data' = IF "contextLoad" \in mounted THEN DataSignedOut(data) ELSE data
  /\ UNCHANGED << userDocs, storeVars, mounted, home, nav, reg, pred, calc, geo, predVars, edits, lastEdit,
                  nEdits, reviewVars, roleOps, lastRoleWrite, nRoleWrites >>

(* ----------------------------- RegisterScreen -------------------------- *)
\* the account that registers
NewUser == "v1"

\* what the registrant types: an e-mail, a password, and the remaining
\* fields (names and security answers) filled or not
Emails ==
  { << >>, << "f", "r", "o", "g" >>, << "v", "@", "f" >>, << "v", "@", "f", ".", "o" >> }
Passwords == { << "1", "2", "3", "4", "5" >>, << "1", "2", "3", "4", "5", "6" >> }
RegisterForms == [ email : Emails, password : Passwords, filled : BOOLEAN ]

\* /^[^\s@]+@[^\s@]+\.[^\s@]+$/ : one "@" that is not first, and a "." after
\* it with a character on each side
EmailOk(email) ==
  \E i \in 1 .. Len(email) :
     /\ email[i] = "@"
     /\ i > 1
     /\ \A k \in 1 .. Len(email) : (email[k] = "@" => k = i) /\ email[k] # " "
     /\ \E j \in (i + 2) .. (Len(email) - 1) : email[j] = "."

\* the checks of handleRegister before setLoading(true): the message set, or ""
RegisterError(form) ==
  IF form.email = << >> \/ form.password = << >> \/ ~form.filled
  THEN "Please fill out all fields."
  ELSE IF Len(form.password) < 6 THEN "Password must be at least 6 characters."
  ELSE IF ~EmailOk(form.email) THEN "Please enter a valid email."
  ELSE ""

\* the users document setDoc writes: role is the constant 'Volunteer', and no
\* isAdmin, isExpert or isPendingExpert field
RegisteredDoc == [ exists |-> TRUE, role |-> "Volunteer", isAdmin |-> FALSE,
                   isExpert |-> FALSE, isPendingExpert |-> FALSE ]

InitReg == [ stage |-> "idle", error |-> "", account |-> FALSE, done |-> FALSE ]

\* the Create Account button (disabled while loading): handleRegister up to
\* createUserWithEmailAndPassword
RegisterTap(form) ==
  /\ "register" \in mounted
  /\ reg.stage = "idle"
  /\ reg' = IF RegisterError(form) # ""
            THEN [reg EXCEPT !.error = RegisterError(form)]
            ELSE [reg EXCEPT !.error = "", !.stage = "auth"]
  /\ reg' # reg
  /\ UNCHANGED << mounted, home, nav, pred, data, calc, geo, ctx, authVars, userDocs, storeVars,
                  predVars, viewVars, reviewVars, usersVars >>

\* how createUserWithEmailAndPassword may settle: "ok", or the e.code of
\* its rejection
CreateOutcomes ==
  { "ok", "auth/email-already-in-use", "auth/invalid-email", "auth/weak-password",
    "auth/network-request-failed" }

\* the message the catch block of handleRegister sets for e.code
RegisterCatchMessage(code) ==
  CASE code = "auth/email-already-in-use" -> "Email is already in use."
    [] code = "auth/invalid-email" -> "Email address is invalid."
    [] code = "auth/weak-password" -> "Password is too weak."
    [] OTHER -> "Could not create account."

\* createUserWithEmailAndPassword settles: the new account is signed in, or
\* the call is rejected (always when the e-mail already has an account)
RegisterCreated(outcome) ==
  /\ reg.stage = "auth"
  /\ outcome = "ok" => ~reg.account
  /\ IF outcome = "ok"
     THEN /\ AuthUser(NewUser)
          /\ reg' = [reg EXCEPT !.stage = "profile", !.account = TRUE]
          /\ UNCHANGED nav
     ELSE /\ reg' = [reg EXCEPT !.stage = "idle", !.error = RegisterCatchMessage(outcome)]
          /\ UNCHANGED << mounted, home, nav, pred, data, calc, geo, ctx, authVars, userDocs, storeVars,
                          predVars, viewVars, reviewVars, usersVars >>

\* updateProfile settles
RegisterProfileDone(ok) ==
  /\ reg.stage = "profile"
  /\ reg' = IF ok THEN [reg EXCEPT !.stage = "doc"]
            ELSE [reg EXCEPT !.stage = "idle", !.error = "Could not create account."]
  /\ UNCHANGED << mounted, home, nav, pred, data, calc, geo, ctx, authVars, userDocs, storeVars,
                  predVars, viewVars, reviewVars, usersVars >>

\* setDoc(users/{uid}) settles; then the alert and router.replace
RegisterDocDone(ok) ==
  /\ reg.stage = "doc"
  /\ IF ok
     THEN /\ userDocs' = [userDocs EXCEPT ![NewUser] = RegisteredDoc]
          /\ reg' = [reg EXCEPT !.stage = "idle", !.done = TRUE]
     ELSE /\ reg' = [reg EXCEPT !.stage = "idle", !.error = "Could not create account."]
          /\ UNCHANGED userDocs
  /\ UNCHANGED << mounted, home, nav, pred, data, calc, geo, ctx, authVars, storeVars,
                  predVars, viewVars, reviewVars, usersVars >>

(* ------------------------ review (approve / discard) ------------------- *)
NoReview == [ outcome |-> "none" ]

\* variant that lets every signed-up role review
CanReviewAnyone(role) == role \in {"volunteer", "expert", "admin"}

\* approve / discard: denied to a volunteer, allowed to an expert or admin
CanReview(role) == role \in {"expert", "admin"}

\* the decision on one review request
ReviewOutcome(actor, r, decision) ==
  IF ~CanReview(RoleOf(actor)) THEN "denied"
  ELSE IF r \notin Existing THEN "not_found"
  ELSE IF recordings[r].status = "needs_review" THEN "applied"
  ELSE IF recordings[r].status = decision THEN "noop"
  ELSE "illegal"

\* an actor asks the backend to approve or discard a recording
Review(actor, r, decision) ==
  /\ nReviews < MaxReviews
  /\ nReviews' = nReviews + 1
  /\ review' = [ outcome |-> ReviewOutcome(actor, r, decision),
                 role |-> RoleOf(actor), target |-> r, decision |-> decision ]
  /\ IF ReviewOutcome(actor, r, decision) = "applied"
     THEN recordings' = [recordings EXCEPT ![r].status = decision, ![r].reviewer = actor]
     ELSE UNCHANGED recordings
  /\ UNCHANGED << ghost, authVars, userDocs, envVars, predVars, viewVars, usersVars >>

(* --------------------------- ExpertHomeScreen -------------------------- *)
\* variant that counts only the recordings that are approved
SubmissionCountApproved(u) ==
  Cardinality({ r \in OwnedBy(u) : recordings[r].status = "approved" })

\* getDocs(query(recordings, where('userId', '==', userDoc.id))).size
SubmissionCount(u) == Cardinality(OwnedBy(u))

\* getCountFromServer(query(rec, where("status", "==", status))).data().count
CountStatus(status) == Cardinality({ r \in Existing : recordings[r].status = status })

NoCounts == [ needs_review |-> 0, approved |-> 0, discarded |-> 0 ]
\* calls of loadReviewCounts that may be in flight at once
MaxLoads == 2
\* pendingReviews, approvedCount, discardedCount; loads: the calls of
\* loadReviewCounts in flight, each with the uid it read at its start, the
\* await it is suspended at (stage) and the counts it holds so far (read)
InitHome == [ loads |-> EmptyBag, loaded |-> FALSE,
              pendingReviews |-> 0, approvedCount |-> 0, discardedCount |-> 0 ]

\* the screen is focused: loadReviewCounts up to its first await
HomeFocus ==
  /\ "expertHome" \in mounted
  /\ currentUser # NoUser => BagCardinality(home.loads) < MaxLoads
  /\ home' = IF currentUser = NoUser
             THEN [home EXCEPT !.pendingReviews = 0, !.approvedCount = 0,
                               !.discardedCount = 0, !.loaded = FALSE]
             ELSE [home EXCEPT !.loads = @ (+) SetToBag({ [ uid |-> currentUser,
                                                            stage |-> "user",
                                                            read |-> NoCounts ] })]
  /\ UNCHANGED << mounted, nav, reg, pred, data, calc, geo, ctx, authVars, userDocs, storeVars, predVars,
                  viewVars, reviewVars, usersVars >>

\* getDoc(users/{uid}) of a load settles: only an expert or an admin goes on
\* to count
HomeUserDone(l, ok) ==
  /\ BagIn(l, home.loads) /\ l.stage = "user"
  /\ home' = IF ok /\ (DocIsExpert(userDocs[l.uid]) \/ DocIsAdmin(userDocs[l.uid]))
             THEN [home EXCEPT !.loads = (@ (-) SetToBag({l}))
                                           (+) SetToBag({ [l EXCEPT !.stage = "needs_review"] })]
             ELSE [home EXCEPT !.loads = @ (-) SetToBag({l})]
  /\ UNCHANGED << mounted, nav, reg, pred, data, calc, geo, ctx, authVars, userDocs, storeVars, predVars,
                  viewVars, reviewVars, usersVars >>

\* one of the three getCountFromServer calls of a load settles; after the
\* third the three setters run; a failure ends the load in the catch block
HomeCountDone(l, ok) ==
  /\ BagIn(l, home.loads) /\ l.stage \in Statuses
  /\ home' =
       IF ~ok THEN [home EXCEPT !.loads = @ (-) SetToBag({l})]
       ELSE IF l.stage = "needs_review"
       THEN [home EXCEPT !.loads = (@ (-) SetToBag({l})) (+) SetToBag(
               { [l EXCEPT !.stage = "approved",
                           !.read.needs_review = CountStatus("needs_review")] })]
       ELSE IF l.stage = "approved"
       THEN [home EXCEPT !.loads = (@ (-) SetToBag({l})) (+) SetToBag(
               { [l EXCEPT !.stage = "discarded",
                           !.read.approved = CountStatus("approved")] })]
       ELSE [home EXCEPT !.loads = @ (-) SetToBag({l}), !.loaded = TRUE,
                         !.pendingReviews = l.read.needs_review,
                         !.approvedCount = l.read.approved,
                         !.discardedCount = CountStatus("discarded")]
  /\ UNCHANGED << mounted, nav, reg, pred, data, calc, geo, ctx, authVars, userDocs, storeVars, predVars,
                  viewVars, reviewVars, usersVars >>

(* ------------------------- role-based navigation ----------------------- *)
\* the role handleLogin and getHomeScreen resolve from a users document:
\* a legacy flag or the lower-cased role field, admin first
HomeRole(d) ==
  IF DocIsAdmin(d) THEN "admin"
  ELSE IF DocIsExpert(d) THEN "expert"
  ELSE "volunteer"

\* the home screen pushed for a resolved role
HomeScreenOf(role) ==
  IF role = "admin" THEN "./adminHomeScreen"
  ELSE IF role = "expert" THEN "./expertHomeScreen"
  ELSE "./volunteerHomeScreen"

\* login: the screen handleLogin last routed to; loginPending: the uids
\* (cred.user.uid) of the calls of handleLogin that await getDoc; back: the
\* UsersScreen's homeScreen; backPending: the uid getHomeScreen read from
\* auth.currentUser before its await
InitNav == [ login |-> "none", loginPending |-> EmptyBag, back |-> "./adminHomeScreen",
             backPending |-> {} ]

\* handleLogin: getDoc(users/{cred.user.uid}) settles and router.replace goes
\* to the home screen of the resolved role, or the catch block sets the error
LoginRouted(u, ok) ==
  /\ BagIn(u, nav.loginPending)
  /\ nav' = [nav EXCEPT !.loginPending = @ (-) SetToBag({u}),
                        !.login = IF ok THEN HomeScreenOf(HomeRole(userDocs[u])) ELSE @]
  /\ UNCHANGED << mounted, home, reg, pred, data, calc, geo, ctx, authVars, userDocs, storeVars, predVars,
                  viewVars, reviewVars, usersVars >>

\* getHomeScreen of the UsersScreen's mount effect: getDoc(users/{uid})
\* resolves (ok) or throws, and setHomeScreen stores the back target
GetHomeScreen(u, ok) ==
  /\ "users" \in mounted
  /\ u \in nav.backPending
  /\ nav' = [nav EXCEPT !.backPending = {},
                        !.back = IF ok THEN HomeScreenOf(HomeRole(userDocs[u]))
                                 ELSE "./adminHomeScreen"]
  /\ UNCHANGED << mounted, home, reg, pred, data, calc, geo, ctx, authVars, userDocs, storeVars, predVars,
                  viewVars, reviewVars, usersVars >>

(* ------------------------------ UsersScreen ---------------------------- *)
NoDialog == [ kind |-> "none" ]
NoRoleWrite == [ kind |-> "none" ]
\* checking: the bag of the uids whose admin check (getDoc) is in flight, one
\* for each call of the auth callback; loads: the bag of the calls of
\* loadUsers in flight
InitUs == [ checking |-> EmptyBag, loads |-> EmptyBag,
            isAdmin |-> FALSE, users |-> {}, shown |-> FALSE, dialog |-> NoDialog ]

\* a call of loadUsers at its first await; stage: the await it is suspended
\* at; pending, counted: its documents whose count query is in flight, and
\* its rows whose count has returned
NewUsersLoad == [ stage |-> "docs", pending |-> {}, counted |-> {} ]

\* variant of the filter that looks at the isAdmin flag only
ListedUserFlagOnly(d) == d.exists /\ ~d.isAdmin

\* nonAdminDocs: isAdmin === true || roleStr === 'admin' is filtered out
ListedUser(d) == d.exists /\ ~DocIsAdmin(d)

\* loadUsers after its first await: nonAdminDocs, with the fields a row takes
\* from the document
UserDocRows ==
  { [ userId |-> u, isExpert |-> DocIsExpert(userDocs[u]),
      isPendingExpert |-> userDocs[u].isPendingExpert ] :
    u \in { x \in Users : ListedUser(userDocs[x]) } }

\* the row loadUsers returns for a document once its count query has returned
CountedRow(row) ==
  [ userId |-> row.userId, isExpert |-> row.isExpert,
    isPendingExpert |-> row.isPendingExpert,
    submissionCount |-> SubmissionCount(row.userId) ]

\* the UsersScreen is opened: fresh state; the mount effect calls
\* getHomeScreen, which reads auth.currentUser and returns at once when it
\* is null; onAuthStateChanged calls the auth effect with the current user
MountUsers ==
  /\ "users" \notin mounted
  /\ mounted' = mounted \cup {"users"}
  /\ nav' = [nav EXCEPT !.back = "./adminHomeScreen",
                        !.backPending = IF currentUser = NoUser THEN {} ELSE {currentUser}]
  /\ us' = [InitUs EXCEPT !.checking = IF currentUser = NoUser THEN EmptyBag
                                       ELSE SetToBag({currentUser})]
  /\ UNCHANGED << home, reg, pred, data, calc, geo, ctx, roleOps, lastRoleWrite, nRoleWrites,
                  authVars, userDocs, storeVars, predVars, viewVars, reviewVars >>

\* the admin check of the auth effect: getDoc(users/{uid}) settles
UsCheckDone(u, ok) ==
  /\ "users" \in mounted
  /\ BagIn(u, us.checking)
  /\ IF ~ok
     THEN \* catch; finally setLoading(false)
          us' = [us EXCEPT !.checking = @ (-) SetToBag({u}),
                           !.shown = (currentUser # NoUser)]
     ELSE IF userDocs[u].exists /\ ~DocIsAdmin(userDocs[u])
     THEN \* setIsAdmin(false); router.replace(home); return
          us' = [us EXCEPT !.checking = @ (-) SetToBag({u}), !.isAdmin = FALSE,
                           !.shown = FALSE]
     ELSE \* (setIsAdmin(true) when the document exists;) await loadUsers()
          us' = [us EXCEPT !.checking = @ (-) SetToBag({u}),
                           !.isAdmin = IF userDocs[u].exists THEN TRUE ELSE @,
                           !.loads = @ (+) SetToBag({NewUsersLoad})]
  /\ UNCHANGED << roleOps, lastRoleWrite, nRoleWrites, authVars, userDocs, storeVars, envVars, predVars,
                  viewVars, reviewVars >>

\* loadUsers: getDocs(collection(db, 'users')) settles; the count queries of
\* the documents that are left are issued (Promise.all of none resolves at once)
UsDocsRead(l, ok) ==
  /\ "users" \in mounted
  /\ BagIn(l, us.loads) /\ l.stage = "docs"
  /\ IF ok /\ UserDocRows # {}
     THEN us' = [us EXCEPT !.loads = (@ (-) SetToBag({l})) (+) SetToBag(
                    { [l EXCEPT !.stage = "counts", !.pending = UserDocRows] })]
     ELSE us' = [us EXCEPT !.loads = @ (-) SetToBag({l}),
                           !.users = IF ok THEN {} ELSE @,
                           !.shown = (currentUser # NoUser)]
  /\ UNCHANGED << roleOps, lastRoleWrite, nRoleWrites, authVars, userDocs, storeVars, envVars, predVars,
                  viewVars, reviewVars >>

\* loadUsers: the count query of one document settles; with the last one
\* Promise.all resolves and setUsers runs, with a failed one it rejects
UsCountDone(l, row, ok) ==
  /\ "users" \in mounted
  /\ BagIn(l, us.loads) /\ l.stage = "counts" /\ row \in l.pending
  /\ IF ok /\ l.pending # {row}
     THEN us' = [us EXCEPT !.loads = (@ (-) SetToBag({l})) (+) SetToBag(
                    { [l EXCEPT !.pending = @ \ {row},
                                !.counted = @ \cup {CountedRow(row)}] })]
     ELSE us' = [us EXCEPT !.loads = @ (-) SetToBag({l}),
                           !.users = IF ok THEN l.counted \cup {CountedRow(row)} ELSE @,
                           !.shown = (currentUser # NoUser)]
  /\ UNCHANGED << roleOps, lastRoleWrite, nRoleWrites, authVars, userDocs, storeVars, envVars, predVars,
                  viewVars, reviewVars >>


\* the button a user row renders: approve / deny for a pending user, else toggle
UsOpenDialog(kind, row) ==
  /\ "users" \in mounted
  /\ us.shown /\ us.dialog = NoDialog
  /\ row \in us.users
  /\ IF row.isPendingExpert THEN kind \in {"approve", "deny"} ELSE kind = "toggle"
  /\ us' = [us EXCEPT !.dialog = [ kind |-> kind, userId |-> row.userId,
                                   currentStatus |-> row.isExpert ]]
  /\ UNCHANGED << roleOps, lastRoleWrite, nRoleWrites, authVars, userDocs, storeVars, envVars, predVars,
                  viewVars, reviewVars >>

\* the Cancel button of the confirmation dialog
UsCancel ==
  /\ "users" \in mounted
  /\ us.dialog # NoDialog
  /\ us' = [us EXCEPT !.dialog = NoDialog]
  /\ UNCHANGED << roleOps, lastRoleWrite, nRoleWrites, authVars, userDocs, storeVars, envVars, predVars,
                  viewVars, reviewVars >>

\* the object the handlers pass to updateDoc(doc(db, 'users', userId), ...)
RoleUpdates(kind, currentStatus) ==
  CASE kind = "toggle" ->
         [ setRole |-> TRUE, role |-> IF currentStatus THEN "volunteer" ELSE "expert",
           isExpert |-> ~currentStatus, isPendingExpert |-> FALSE ]
    [] kind = "approve" ->
         [ setRole |-> TRUE, role |-> "expert", isExpert |-> TRUE, isPendingExpert |-> FALSE ]
    [] OTHER ->
         [ setRole |-> FALSE, role |-> "absent", isExpert |-> FALSE, isPendingExpert |-> FALSE ]

\* variant whose update writes the role and leaves isPendingExpert as it is
ApplyRoleUpdatesRoleOnly(d, u) ==
  IF u.setRole
  THEN [ d EXCEPT !.role = u.role, !.isExpert = u.isExpert ]
  ELSE [ d EXCEPT !.isPendingExpert = FALSE ]

\* updateDoc applied to a users document
ApplyRoleUpdates(d, u) ==
  IF u.setRole
  THEN [ d EXCEPT !.role = u.role, !.isExpert = u.isExpert, !.isPendingExpert = FALSE ]
  ELSE [ d EXCEPT !.isPendingExpert = FALSE ]

\* the confirming button of the dialog: onPress up to its first await
\* (usersAPI.updateRole for toggle and approve, updateDoc for deny)
UsConfirm ==
  /\ "users" \in mounted
  /\ us.dialog # NoDialog
  /\ nRoleWrites < MaxRoleWrites
  /\ us' = [us EXCEPT !.dialog = NoDialog]
  /\ roleOps' = roleOps \cup
       { [ id |-> nRoleWrites + 1, kind |-> us.dialog.kind, target |-> us.dialog.userId,
           currentStatus |-> us.dialog.currentStatus, actor |-> currentUser,
           stage |-> IF us.dialog.kind = "deny" THEN "doc" ELSE "api" ] }
  /\ nRoleWrites' = nRoleWrites + 1
  /\ lastRoleWrite' = [ kind |-> us.dialog.kind, target |-> us.dialog.userId,
                        actor |-> currentUser, actorRole |-> RoleOf(currentUser) ]
  /\ UNCHANGED << authVars, userDocs, storeVars, envVars, predVars, viewVars, reviewVars >>

\* variant of the local patch that leaves isPendingExpert as it is
PatchUsersKeepPending(rows, op) ==
  { IF row.userId = op.target
    THEN [ row EXCEPT !.isExpert = IF op.kind = "toggle" THEN ~op.currentStatus
                                   ELSE IF op.kind = "approve" THEN TRUE ELSE @ ]
    ELSE row : row \in rows }

\* setUsers(prev => prev.map(...)) after a write
PatchUsers(rows, op) ==
  { IF row.userId = op.target
    THEN [ row EXCEPT !.isExpert = IF op.kind = "toggle" THEN ~op.currentStatus
                                   ELSE IF op.kind = "approve" THEN TRUE ELSE @,
                      !.isPendingExpert = FALSE ]
    ELSE row : row \in rows }

\* the backend's role update: applied for an admin caller only
ApiUpdateRole(d, role) ==
  [ d EXCEPT !.role = role, !.isExpert = (role = "expert"), !.isPendingExpert = FALSE ]

\* usersAPI.updateRole settles; on failure the Firestore fallback is issued
UsApiDone(op, ok) ==
  /\ op \in roleOps /\ op.stage = "api"
  /\ ok => RoleOf(op.actor) = "admin"
  /\ IF ok
     THEN /\ roleOps' = roleOps \ {op}
          /\ userDocs' = [userDocs EXCEPT ![op.target] =
                            ApiUpdateRole(@, RoleUpdates(op.kind, op.currentStatus).role)]
          /\ us' = [us EXCEPT !.users = PatchUsers(@, op)]
     ELSE /\ roleOps' = (roleOps \ {op}) \cup { [op EXCEPT !.stage = "doc"] }
          /\ UNCHANGED << userDocs, us >>
  /\ UNCHANGED << lastRoleWrite, nRoleWrites, authVars, storeVars, envVars, predVars, viewVars, reviewVars >>

\* updateDoc on the users document settles
UsDocDone(op, ok) ==
  /\ op \in roleOps /\ op.stage = "doc"
  /\ roleOps' = roleOps \ {op}
  /\ IF ok
     THEN /\ userDocs' = [userDocs EXCEPT ![op.target] =
                            ApplyRoleUpdates(@, RoleUpdates(op.kind, op.currentStatus))]
          /\ us' = [us EXCEPT !.users = PatchUsers(@, op)]
     ELSE UNCHANGED << userDocs, us >>
  /\ UNCHANGED << lastRoleWrite, nRoleWrites, authVars, storeVars, envVars, predVars, viewVars, reviewVars >>

(* --------------------- the prediction effect, callPredict -------------- *)
\* endpoints = [`${API_BASE}/predict`, `${API_BASE}/ml/predict`]
Endpoints == << "/predict", "/ml/predict" >>

\* values of API_BASE: an http base, an https base in capitals, and two
\* that are no http URL
ApiBases ==
  { << "h", "t", "t", "p", ":", "/", "/", "x" >>,
    << "H", "T", "T", "P", "S", ":", "/", "/", "x" >>,
    << "x", ":", "8" >>,
    << >> }

\* isHttpUrl: !!s && /^https?:\/\//i.test(s)
IsHttpUrl(url) ==
  LET low == ToLowerCase(url)
      http == << "h", "t", "t", "p", ":", "/", "/" >>
      https == << "h", "t", "t", "p", "s", ":", "/", "/" >>
  IN \/ (Len(low) >= Len(http) /\ SubSeq(low, 1, Len(http)) = http)
     \/ (Len(low) >= Len(https) /\ SubSeq(low, 1, Len(https)) = https)

\* the URL of endpoint k
EndpointUrl(apiBase, k) == apiBase \o << Endpoints[k] >>

RECURSIVE NextContact(_, _)
\* the loop of callPredict from endpoint k on: the first endpoint that passes
\* isHttpUrl, or 0 when the loop ends
NextContact(apiBase, k) ==
  IF k > Len(Endpoints) THEN 0
  ELSE IF IsHttpUrl(EndpointUrl(apiBase, k)) THEN k
  ELSE NextContact(apiBase, k + 1)

\* what an endpoint may answer with: the JSON body of an OK response
\* (species, and top3 when it is an array)
Entry(species, confidence) == [ species |-> species, confidence |-> confidence ]
PredictorBodies ==
  { [ species |-> "Wood Frog", isArray |-> TRUE,
      top3 |-> << Entry("Wood Frog", 8200), Entry("Bullfrog", 1000), Entry("Green Frog", 500) >> ],
    [ species |-> "Wood Frog", isArray |-> TRUE,
      top3 |-> << Entry("Wood Frog", 4000), Entry("Bullfrog", 3000), Entry("Green Frog", 2000),
                  Entry("American Toad", 1000) >> ],
    [ species |-> "Green Frog", isArray |-> TRUE,
      top3 |-> << Entry("Bullfrog", 1000), Entry("Green Frog", 8200) >> ],
    [ species |-> "Bullfrog", isArray |-> TRUE,
      top3 |-> << Entry("Bullfrog", 0 - 5000) >> ],
    [ species |-> "Bullfrog", isArray |-> TRUE,
      top3 |-> << Entry("Bullfrog", 82 * Scale) >> ],
    [ species |-> "", isArray |-> FALSE, top3 |-> << >> ] }

\* callPredict's result for an OK response: species, and top3 when it is an array
RealResult(body) ==
  [ species |-> body.species, top3 |-> IF body.isArray THEN body.top3 ELSE << >> ]

MockSpecies ==
  << "Bullfrog", "Green Frog", "American Toad", "Wood Frog", "Northern Spring Peeper" >>
\* Math.floor(Math.random() * 5) and 0.75 + Math.random() * 0.2
MockIndexes == {1, 5}
MockConfidences == {7500, 9000}
MockChoices == MockIndexes \X MockConfidences

\* the mock prediction: the chosen species and the two after it, at the
\* confidence, 0.6 and 0.3 of it
MockResult(choice) ==
  LET i == choice[1]
      c == choice[2]
      At(j) == MockSpecies[((i - 1 + j) % Len(MockSpecies)) + 1]
  IN [ species |-> At(0),
       top3 |-> << Entry(At(0), c), Entry(At(1), (c * 6) \div 10),
                   Entry(At(2), (c * 3) \div 10) >> ]

\* setTop3((res.top3 ?? []).map(t => ({ species, confidence: toPercent(confidence) })))
ScreenTop3(top3) ==
  [ i \in 1 .. Len(top3) |-> Entry(top3[i].species, ToPercent(top3[i].confidence)) ]

\* calls of callPredict the Re-run Model button starts, per draft
MaxReruns == 1


\* a call of callPredict before its loop: caller is the mount effect or the
\* Re-run Model button
NewCall(caller) ==
  [ caller |-> caller, stage |-> "loop", k |-> 0, contacted |-> << >>, failed |-> {},
    timer |-> FALSE, respOk |-> FALSE, lastErr |-> "" ]

\* callPredict returns res to its caller: the effect stores it only if
\* mountedRef.current (and only then clears loading), the button always does
Returned(p, c, res, source) ==
  LET stores == c.caller = "rerun" \/ p.mountedRef
      end == [ caller |-> c.caller, contacted |-> c.contacted, failed |-> c.failed,
               answered |-> IF source = "real" THEN c.k ELSE 0,
               source |-> source, alerted |-> (source = "mock") ]
  IN [ p EXCEPT !.ended = @ \cup {end},
                !.loading = IF stores THEN FALSE ELSE @,
                !.source = IF stores THEN source ELSE @,
                !.predictedSpecies = IF ~stores THEN @
                                     ELSE IF res.species # "" THEN res.species ELSE "Bullfrog",
                !.resSpecies = IF stores THEN res.species ELSE @,
                !.top3 = IF stores THEN ScreenTop3(res.top3) ELSE @ ]

\* variant of the loop that gives up after the first endpoint that fails
ContactFromFirstOnly(p, c, k, choice) ==
  IF k = 1 /\ NextContact(p.apiBase, k) # 0
  THEN [ p EXCEPT !.calls = @ (+) SetToBag(
           { [ c EXCEPT !.stage = "fetch", !.k = NextContact(p.apiBase, k), !.timer = TRUE,
                        !.contacted = Append(@, NextContact(p.apiBase, k)) ] }) ]
  ELSE Returned(p, c, MockResult(choice), "mock")

\* the loop of call c from endpoint k on: fetch the next endpoint with the
\* abort timer armed, or alert and return the mock prediction; p holds the
\* other calls
ContactFrom(p, c, k, choice) ==
  IF NextContact(p.apiBase, k) # 0
  THEN [ p EXCEPT !.calls = @ (+) SetToBag(
           { [ c EXCEPT !.stage = "fetch", !.k = NextContact(p.apiBase, k), !.timer = TRUE,
                        !.contacted = Append(@, NextContact(p.apiBase, k)) ] }) ]
  ELSE Returned(p, c, MockResult(choice), "mock")

\* the catch block of the loop: endpoint c.k has failed, lastErr = e
EndpointFailed(p, c, e, choice) ==
  ContactFrom(p, [ c EXCEPT !.failed = @ \cup {c.k}, !.timer = FALSE, !.lastErr = e ],
              c.k + 1, choice)

\* the screen without call c
Without(p, c) == [ p EXCEPT !.calls = @ (-) SetToBag({c}) ]

PredUnchanged ==
  UNCHANGED << mounted, home, nav, reg, data, calc, geo, ctx, authVars, userDocs, storeVars,
               predVars, viewVars, reviewVars, usersVars >>

\* getInfoAsync settles: the file is missing, or setLoading(true) and
\* callPredict runs up to its first fetch
PredictInfoDone(exists, choice) ==
  /\ pred.effect = "info"
  /\ pred' = IF ~exists
             THEN [ pred EXCEPT !.effect = "done",
                                !.apiError = "Recorded file is missing. Please re-record." ]
             ELSE ContactFrom([ pred EXCEPT !.effect = "done", !.loading = TRUE,
                                            !.apiError = "" ],
                              NewCall("effect"), 1, choice)
  /\ PredUnchanged

\* the Re-run Model button: setLoading(true), setApiError(null), which
\* React renders, and callPredict up to its first fetch
RerunModel(choice) ==
  /\ "prediction" \in mounted
  /\ draft > 0
  /\ pred.reruns < MaxReruns
  /\ pred' = Committed(ContactFrom([ pred EXCEPT !.reruns = @ + 1, !.loading = TRUE,
                                                 !.apiError = "" ],
                                   NewCall("rerun"), 1, choice), view)
  /\ view' = Rendered(ps, pred)
  /\ UNCHANGED << mounted, home, nav, reg, data, calc, geo, ctx, authVars, userDocs, storeVars,
                  draft, ps, roleReq, subs, net, attempts, lastTap, viewVars, reviewVars,
                  usersVars >>

\* the calls of handlePlay that may be in flight at once
MaxPlays == 1

\* a tap on the play button: handlePlay of the last render (its `sound`) up
\* to await FileSystem.getInfoAsync
HandlePlay ==
  /\ "prediction" \in mounted
  /\ draft > 0
  /\ BagCardinality(pred.plays) < MaxPlays
  /\ pred' = [ pred EXCEPT !.plays = @ (+) SetToBag({ [ stage |-> "info",
                                                        sound |-> view.sound ] }) ]
  /\ PredUnchanged

\* getInfoAsync of handlePlay settles: the file is missing (or the call
\* throws) and the handler ends, or sound.replayAsync() is called when the
\* render had a sound, Audio.Sound.createAsync when it had none
PlayInfoDone(p, exists) ==
  /\ BagIn(p, pred.plays) /\ p.stage = "info"
  /\ pred' = [ pred EXCEPT !.plays =
                 IF exists
                 THEN (@ (-) SetToBag({p})) (+) SetToBag({ [ p EXCEPT !.stage = "sound" ] })
                 ELSE @ (-) SetToBag({p}) ]
  /\ PredUnchanged

\* replayAsync or createAsync settles: after createAsync setSound(newSound)
\* runs, a failure is caught and logged
PlaySoundDone(p, ok) ==
  /\ BagIn(p, pred.plays) /\ p.stage = "sound"
  /\ pred' = [ pred EXCEPT !.plays = @ (-) SetToBag({p}),
                           !.sound = IF ok /\ ~p.sound THEN TRUE ELSE @ ]
  /\ PredUnchanged

\* fetch settles with a response: clearTimeout(timer), then the body is read
\* (resp.json() of an OK response, resp.text() of another)
FetchResponded(c, ok) ==
  /\ BagIn(c, pred.calls) /\ c.stage = "fetch"
  /\ pred' = [ pred EXCEPT !.calls = (@ (-) SetToBag({c})) (+) SetToBag(
                 { [ c EXCEPT !.stage = "body", !.timer = FALSE, !.respOk = ok ] }) ]
  /\ PredUnchanged

\* fetch rejects: a network error
FetchFailed(c, choice) ==
  /\ BagIn(c, pred.calls) /\ c.stage = "fetch"
  /\ pred' = EndpointFailed(Without(pred, c), c, "network", choice)
  /\ PredUnchanged

\* the 15-second timer fires while it is armed: controller.abort() rejects
\* the fetch
AbortTimer(c, choice) ==
  /\ BagIn(c, pred.calls) /\ c.timer
  /\ c.stage \in {"fetch", "body"}
  /\ pred' = EndpointFailed(Without(pred, c), c, "abort", choice)
  /\ PredUnchanged

\* the body has been read: resp.json() gives the data and callPredict
\* returns, or it throws, or the response was not OK and the loop throws
BodyRead(c, body, parsed, choice) ==
  /\ BagIn(c, pred.calls) /\ c.stage = "body"
  /\ pred' = IF c.respOk /\ parsed
             THEN Returned(Without(pred, c), c, RealResult(body), "real")
             ELSE EndpointFailed(Without(pred, c), c,
                                 IF c.respOk THEN "json" ELSE "status", choice)
  /\ PredUnchanged

\* the species picker: setPredictedSpecies(item) with an item that changes
\* the state, which React renders
SelectSpecies(item) ==
  /\ draft > 0
  /\ pred.predictedSpecies # item
  /\ pred' = Committed([ pred EXCEPT !.predictedSpecies = item ], view)
  /\ view' = Rendered(ps, pred')
  /\ UNCHANGED << mounted, home, nav, reg, data, calc, geo, ctx, authVars, userDocs, storeVars,
                  draft, ps, roleReq, subs, net, attempts, lastTap, viewVars, reviewVars,
                  usersVars >>

\* loadAllRecordings: every recording, parsed and sorted
AllRecordingRows ==
  SortDesc([ i \in 1 .. Cardinality(Existing) |-> ParseRecording(SetToSeq(Existing)[i]) ])

(* --------------------- DataProvider: the two loads --------------------- *)
\* getDocs(collection(db, 'users')) returns the documents by their id
DocOrder == << "a1", "e1", "v1" >>

\* the document loadAllUsers counts next: the first one left
NextCounted(left) ==
  LET i == CHOOSE j \in 1 .. Len(DocOrder) :
             /\ \E row \in left : row.userId = DocOrder[j]
             /\ \A row \in left : \E n \in j .. Len(DocOrder) : row.userId = DocOrder[n]
  IN CHOOSE row \in left : row.userId = DocOrder[i]

\* load l has moved on to `next`: when both loads of the initial-load
\* effect have settled, Promise.all(...).then sets initialLoadComplete
LoadStep(d, l, next) ==
  LET all == next.users = "done" /\ next.recordings
  IN [ d EXCEPT
         !.loads = IF all THEN @ (-) SetToBag({l})
                   ELSE (@ (-) SetToBag({l})) (+) SetToBag({next}),
         !.initialLoadComplete = IF all /\ l.initial /\ LoadSets(l) THEN TRUE ELSE @,
         !.completeFrom = IF all /\ l.initial /\ LoadSets(l) THEN l.session ELSE @ ]

\* setAllUsers(usersData) of load l
SetAllUsers(d, l, rows) ==
  IF LoadSets(l) THEN [ d EXCEPT !.allUsers = rows, !.usersFrom = l.session ] ELSE d

\* refreshAllUsers of the context: a screen calls loadAllUsers, which runs
\* up to its getDocs
RefreshAllUsers ==
  /\ "contextLoad" \in mounted
  /\ BagCardinality(data.loads) < MaxDataLoads
  /\ data' = [ data EXCEPT !.loads = @ (+) SetToBag(
                 { [ NewLoad EXCEPT !.initial = FALSE, !.recordings = TRUE ] }) ]
  /\ UNCHANGED << mounted, home, nav, reg, pred, calc, geo, ctx, authVars, userDocs, storeVars,
                  predVars, viewVars, reviewVars, usersVars >>

\* refreshAllRecordings of the context: a screen calls loadAllRecordings,
\* which runs up to its getDocs
RefreshAllRecordings ==
  /\ "contextLoad" \in mounted
  /\ BagCardinality(data.loads) < MaxDataLoads
  /\ data' = [ data EXCEPT !.loads = @ (+) SetToBag(
                 { [ NewLoad EXCEPT !.initial = FALSE, !.users = "done" ] }) ]
  /\ UNCHANGED << mounted, home, nav, reg, pred, calc, geo, ctx, authVars, userDocs, storeVars,
                  predVars, viewVars, reviewVars, usersVars >>

\* loadAllUsers: getDocs(collection(db, 'users')) settles; the count queries
\* of the documents that are no admin's follow, one after the other (a
\* failure ends the load in its catch block)
LoadUsersRead(l, ok) ==
  /\ "contextLoad" \in mounted
  /\ BagIn(l, data.loads) /\ l.users = "docs"
  /\ data' = IF ok /\ UserDocRows # {}
             THEN LoadStep(data, l, [ l EXCEPT !.users = "counts", !.left = UserDocRows ])
             ELSE LoadStep(IF ok THEN SetAllUsers(data, l, {}) ELSE data,
                           l, [ l EXCEPT !.users = "done" ])
  /\ UNCHANGED << mounted, home, nav, reg, pred, calc, geo, ctx, authVars, userDocs, storeVars,
                  predVars, viewVars, reviewVars, usersVars >>

\* loadAllUsers: the count query of the next document settles; after the
\* last one setAllUsers runs
LoadUserCounted(l, ok) ==
  /\ "contextLoad" \in mounted
  /\ BagIn(l, data.loads) /\ l.users = "counts"
  /\ LET row == NextCounted(l.left)
         rows == l.rows \cup {CountedRow(row)}
     IN data' =
          IF ok /\ l.left # {row}
          THEN LoadStep(data, l, [ l EXCEPT !.left = @ \ {row}, !.rows = rows ])
          ELSE LoadStep(IF ok THEN SetAllUsers(data, l, rows) ELSE data,
                        l, [ l EXCEPT !.users = "done", !.left = {}, !.rows = {} ])
  /\ UNCHANGED << mounted, home, nav, reg, pred, calc, geo, ctx, authVars, userDocs, storeVars,
                  predVars, viewVars, reviewVars, usersVars >>

\* loadAllRecordings: getDocs(collection(db, 'recordings')) settles and
\* setAllRecordings runs (its catch block swallows a failure)
LoadRecordingsRead(l, ok) ==
  /\ "contextLoad" \in mounted
  /\ BagIn(l, data.loads) /\ ~l.recordings
  /\ data' = LoadStep(IF ok /\ LoadSets(l)
                      THEN [ data EXCEPT !.allRecordings = AllRecordingRows,
                                         !.recordingsFrom = l.session ]
                      ELSE data,
                      l, [ l EXCEPT !.recordings = TRUE ])
  /\ UNCHANGED << mounted, home, nav, reg, pred, calc, geo, ctx, authVars, userDocs, storeVars,
                  predVars, viewVars, reviewVars, usersVars >>

(* ------------------------------ behaviours ----------------------------- *)
UserDoc(role, isExpert, pending) ==
  [ exists |-> TRUE, role |-> role, isAdmin |-> FALSE, isExpert |-> isExpert,
    isPendingExpert |-> pending ]

\* an admin, an expert, and a volunteer as RegisterScreen creates one
InitUserDocs ==
  [ u \in Users |->
      CASE u = "a1" -> UserDoc("admin", FALSE, FALSE)
        [] u = "e1" -> UserDoc("expert", TRUE, FALSE)
        [] OTHER -> UserDoc("Volunteer", FALSE, FALSE) ]

NoGhost == [ draft |-> 0 ]

InitStoreEmpty ==
  /\ recordings = [ r \in RecIds |-> NoDoc ]
  /\ ghost = [ r \in RecIds |-> NoGhost ]

InitCommon ==
  /\ currentUser = NoUser
  /\ draft = 0
  /\ ps = InitPs
  /\ view = Rendered(InitPs, InitPred)
  /\ roleReq = NoUser
  /\ subs = {}
  /\ net = NoCalls
  /\ attempts = 0
  /\ lastTap = "none"
  /\ hist = InitHist
  /\ map = InitMap
  /\ edits = {}
  /\ lastEdit = NoEdit
  /\ nEdits = 0
  /\ review = NoReview
  /\ nReviews = 0
  /\ us = InitUs
  /\ roleOps = {}
  /\ lastRoleWrite = NoRoleWrite
  /\ nRoleWrites = 0
  /\ geo = InitGeo
  /\ ctx = InitCtx
  /\ home = InitHome
  /\ nav = InitNav
  /\ reg = InitReg
  /\ data = InitData

\* the mock prediction of the runs whose API_BASE is empty: Bullfrog at 0.75
GivenChoices == { << 1, 7500 >> }

\* how uploadAsync may end: 2xx; or a non-2xx status or an exception
UploadResults(Oks) ==
  { res \in {"ok", "bad_status", "exception"} : (res = "ok") \in Oks }

\* the inputs of one run: who signs in, how the network calls of a submit
\* may end, who asks for a review
PredictionActions(Oks, Levels) ==
  \/ MountPrediction
  \/ \E ok \in Oks : RoleFetched(ok)
  \/ Render
  \/ \E level \in Levels : SelectConfidence(level)
  \/ ToggleSubmitAsExpert
  \/ TapSubmit
  \/ \E s \in subs, ok \in Oks : TokenDone(s, ok)
  \/ \E s \in subs : ProfileDone(s)
  \/ \E s \in subs, fileExists \in Oks : InfoDone(s, fileExists)
  \/ \E s \in subs, result \in UploadResults(Oks) : UploadDone(s, result)
  \/ \E s \in subs, ok \in Oks : WriteDone(s, ok)
  \/ \E exists \in Oks, choice \in GivenChoices : PredictInfoDone(exists, choice)
  \/ \E f \in geo.fetches : GeoFetchDone(f, "place")

AuthActions(Actors) ==
  \/ \E u \in Actors : SignIn(u)
  \/ SignOut

HistoryActions ==
  \/ \E u \in hist.listening : HistSnapshot(u)
  \/ \E u \in hist.listening : HistSnapshotError(u)
  \/ \E r \in RecIds : HistExpand(r)
  \/ \E r \in RecIds : HistEdit(r)
  \/ \E r \in RecIds, sp \in EditSpeciesInputs, text \in EditConfidenceInputs :
       HistResubmitTap(r, sp, text, "")
  \/ \E e \in edits, ok \in BOOLEAN : HistResubmitDone(e, ok)

MapActions ==
  \/ \E u \in map.listening : MapSnapshot(u)
  \/ \E u \in map.listening : MapSnapshotError(u)
  \/ \E r \in RecIds : MapMarkerPress(r)
  \/ MapCardPress
  \/ MapDismiss
  \/ MapClose
  \/ MapResubmitTap
  \/ \E sp \in EditSpeciesInputs, text \in EditConfidenceInputs : MapEditTap(sp, text, "")
  \/ \E e \in edits, ok \in BOOLEAN : MapSaveDone(e, ok)

ReviewActions(Actors) ==
  \E actor \in Actors, r \in RecIds, decision \in {"approved", "discarded"} :
     Review(actor, r, decision)

UsersActions ==
  \/ \E u \in Users, ok \in BOOLEAN : UsCheckDone(u, ok)
  \/ \E l \in BagToSet(us.loads), ok \in BOOLEAN : UsDocsRead(l, ok)
  \/ \E l \in BagToSet(us.loads), ok \in BOOLEAN :
        \E row \in l.pending : UsCountDone(l, row, ok)
  \/ \E kind \in {"toggle", "approve", "deny"}, row \in us.users : UsOpenDialog(kind, row)
  \/ UsCancel
  \/ UsConfirm
  \/ \E op \in roleOps, ok \in BOOLEAN : UsApiDone(op, ok)
  \/ \E op \in roleOps, ok \in BOOLEAN : UsDocDone(op, ok)

\* Spec: the client's recording lifecycle, from submit to the History view,
\* edit and resubmit; the network calls of a submit succeed
Init ==
  /\ InitCommon
  /\ calc = NoCalc
  /\ pred = InitPred
  /\ InitStoreEmpty
  /\ userDocs = InitUserDocs
  /\ mounted = {"prediction", "history"}

Next ==
  \/ AuthActions({"e1", "v1"})
  \/ PredictionActions({TRUE}, {"high"})
  \/ HistoryActions

Spec == Init /\ [][Next]_vars

\* SpecSubmit: one draft on the PredictionScreen, every network call may fail
InitSubmit ==
  /\ InitCommon
  /\ calc = NoCalc
  /\ pred = InitPred
  /\ InitStoreEmpty
  /\ userDocs = InitUserDocs
  /\ mounted = {"prediction"}

NextSubmit ==
  \/ AuthActions({"e1", "v1"})
  \/ PredictionActions(BOOLEAN, {"high", "low"})

SpecSubmit == InitSubmit /\ [][NextSubmit]_vars

\* recordings submitted earlier: one of an expert (approved by the submitter,
\* or waiting for review) and one of a volunteer
InitStoreFilled ==
  \E selfApprove \in BOOLEAN :
     /\ recordings =
          [ r \in RecIds |->
              IF r = 1
              THEN NewRecording("e1", selfApprove, ScreenRole(InitUserDocs["e1"]), "high", 1)
              ELSE IF r = 2
              THEN NewRecording("v1", FALSE, ScreenRole(InitUserDocs["v1"]), "low", 2)
              ELSE NoDoc ]
     /\ ghost =
          [ r \in RecIds |->
              IF r = 1
              THEN SubmitGhost(1, selfApprove, ResolveRole(InitUserDocs["e1"]),
                               SubmitStatus(selfApprove, ScreenRole(InitUserDocs["e1"])))
              ELSE IF r = 2
              THEN SubmitGhost(2, FALSE, ResolveRole(InitUserDocs["v1"]), "needs_review")
              ELSE NoGhost ]

\* SpecHistory: the History view, edits and reviews over recordings submitted earlier
InitHistory ==
  /\ InitCommon
  /\ calc = NoCalc
  /\ pred = InitPred
  /\ InitStoreFilled
  /\ userDocs = InitUserDocs
  /\ mounted = {"history"}

NextHistory ==
  \/ AuthActions({"e1", "v1"})
  \/ HistoryActions
  \/ ReviewActions({"a1", "v1"})

SpecHistory == InitHistory /\ [][NextHistory]_vars

\* SpecMap: the Map view and its edits over recordings submitted earlier
InitMapView ==
  /\ InitCommon
  /\ calc = NoCalc
  /\ pred = InitPred
  /\ InitStoreFilled
  /\ userDocs = InitUserDocs
  /\ mounted = {"map"}

NextMap ==
  \/ AuthActions({"e1", "v1"})
  \/ MapActions
  \/ ReviewActions({"a1", "v1"})

SpecMap == InitMapView /\ [][NextMap]_vars

\* the documents user e1 may have: an expert, or an admin marked by a role
\* of another letter case or by the legacy flag
SecondUserDocs ==
  { UserDoc("expert", TRUE, FALSE),
    UserDoc("Admin", FALSE, FALSE),
    [ UserDoc("expert", TRUE, FALSE) EXCEPT !.isAdmin = TRUE ] }

\* SpecUsers: the admin's user list; the volunteer may have asked for expert status
InitUsers ==
  /\ InitCommon
  /\ calc = NoCalc
  /\ pred = InitPred
  /\ InitStoreEmpty
  /\ \E pending \in BOOLEAN :
       userDocs = [InitUserDocs EXCEPT !["v1"] = UserDoc("Volunteer", FALSE, pending)]
  /\ mounted = {"users"}

NextUsers == AuthActions({"a1", "v1"}) \/ UsersActions

SpecUsers == InitUsers /\ [][NextUsers]_vars

\* SpecRoles: the admin moderates the user list; the volunteer may have asked
\* for expert status, and the store may hold a second admin
InitRoles ==
  /\ InitCommon
  /\ calc = NoCalc
  /\ pred = InitPred
  /\ InitStoreEmpty
  /\ \E pending \in BOOLEAN, second \in SecondUserDocs :
       userDocs = [InitUserDocs EXCEPT !["v1"] = UserDoc("Volunteer", FALSE, pending),
                                       !["e1"] = second]
  /\ mounted = {"users"}

NextRoles == AuthActions({"a1"}) \/ UsersActions

SpecRoles == InitRoles /\ [][NextRoles]_vars

\* SpecNav: one account whose users document holds any role string and any
\* legacy flags signs in, is routed, and opens the screens that read its role
RoleFields == {"absent", "volunteer", "Volunteer", "expert", "Expert", "admin"}

InitNavDocs ==
  /\ InitCommon
  /\ calc = NoCalc
  /\ pred = InitPred
  /\ InitStoreEmpty
  /\ \E role \in RoleFields, isAdmin \in BOOLEAN, isExpert \in BOOLEAN :
       userDocs = [InitUserDocs EXCEPT
                     !["e1"] = [ UserDoc(role, isExpert, FALSE) EXCEPT !.isAdmin = isAdmin ]]
  /\ mounted = {"prediction", "login"}

NextNav ==
  \/ AuthActions({"e1"})
  \/ \E u \in {"e1"} : LoginSameUser(u)
  \/ \E u \in BagToSet(nav.loginPending), ok \in BOOLEAN : LoginRouted(u, ok)
  \/ MountUsers
  \/ \E u \in nav.backPending, ok \in BOOLEAN : GetHomeScreen(u, ok)
  \/ MountPrediction
  \/ \E ok \in {TRUE} : RoleFetched(ok)
  \/ Render

SpecNav == InitNavDocs /\ [][NextNav]_vars

\* SpecRegister: a new account registers while the admin works on the user
\* list; the store holds the admin's document only
InitRegister ==
  /\ InitCommon
  /\ calc = NoCalc
  /\ pred = InitPred
  /\ InitStoreEmpty
  /\ userDocs = [InitUserDocs EXCEPT
                   ![NewUser] = [ RegisteredDoc EXCEPT !.exists = FALSE ],
                   !["e1"] = [ RegisteredDoc EXCEPT !.exists = FALSE ]]
  /\ mounted = {"users", "register"}

RegisterActions ==
  \/ \E form \in RegisterForms : RegisterTap(form)
  \/ \E outcome \in CreateOutcomes : RegisterCreated(outcome)
  \/ \E ok \in BOOLEAN : RegisterProfileDone(ok)
  \/ \E ok \in BOOLEAN : RegisterDocDone(ok)

NextRegister == AuthActions({"a1"}) \/ UsersActions \/ RegisterActions

SpecRegister == InitRegister /\ [][NextRegister]_vars

\* SpecCall: one draft's prediction effect against any API_BASE, with
\* endpoints that answer, fail, or never answer
InitCall ==
  /\ InitCommon
  /\ calc = NoCalc
  /\ \E apiBase \in ApiBases : pred = [ InitPred EXCEPT !.apiBase = apiBase ]
  /\ InitStoreEmpty
  /\ userDocs = InitUserDocs
  /\ mounted = {"prediction"}

CallActions ==
  \/ \E exists \in BOOLEAN, choice \in MockChoices : PredictInfoDone(exists, choice)
  \/ \E c \in BagToSet(pred.calls), ok \in BOOLEAN : FetchResponded(c, ok)
  \/ \E c \in BagToSet(pred.calls), choice \in MockChoices : FetchFailed(c, choice)
  \/ \E c \in BagToSet(pred.calls), choice \in MockChoices : AbortTimer(c, choice)
  \/ \E c \in BagToSet(pred.calls), body \in PredictorBodies, parsed \in BOOLEAN,
        choice \in MockChoices : BodyRead(c, body, parsed, choice)

\* the Play button and the calls it makes
PlayActions ==
  \/ HandlePlay
  \/ \E p \in BagToSet(pred.plays), exists \in BOOLEAN : PlayInfoDone(p, exists)
  \/ \E p \in BagToSet(pred.plays), ok \in BOOLEAN : PlaySoundDone(p, ok)

\* what the user may tap on the screen besides Submit
ScreenTaps ==
  \/ \E choice \in MockChoices : RerunModel(choice)
  \/ PlayActions

NextCall == MountPrediction \/ Render \/ CallActions \/ ScreenTaps

SpecCall == InitCall /\ [][NextCall]_vars

\* the steps that happen whatever the network does: the effect runs, the
\* local getInfoAsync settles, and an armed abort timer fires
SpecCallFair ==
  /\ SpecCall
  /\ WF_vars(MountPrediction)
  /\ WF_vars(\E exists \in BOOLEAN, choice \in MockChoices : PredictInfoDone(exists, choice))
  /\ WF_vars(\E c \in BagToSet(pred.calls), choice \in MockChoices : AbortTimer(c, choice))

\* SpecPredict: one draft from the model run of the mount effect to the
\* stored recording; the species picker may be used at any time
InitPredict ==
  /\ InitCommon
  /\ calc = NoCalc
  /\ pred = [ InitPred EXCEPT !.apiBase = << "h", "t", "t", "p", ":", "/", "/", "x" >> ]
  /\ InitStoreEmpty
  /\ userDocs = InitUserDocs
  /\ mounted = {"prediction"}

PickerItems == {"Green Frog"}

NextPredict ==
  \/ AuthActions({"e1"})
  \/ PredictionActions({TRUE}, {"high"})
  \/ CallActions
  \/ \E item \in PickerItems : SelectSpecies(item)

SpecPredict == InitPredict /\ [][NextPredict]_vars

\* SpecData: the DataProvider's pre-fetch while accounts sign in and out
InitDataLoad ==
  /\ InitCommon
  /\ calc = NoCalc
  /\ pred = InitPred
  /\ InitStoreFilled
  /\ userDocs = InitUserDocs
  /\ mounted = {"contextLoad"}

NextData ==
  \/ AuthActions({"a1", "v1"})
  \/ \E l \in BagToSet(data.loads), ok \in BOOLEAN : LoadUsersRead(l, ok)
  \/ \E l \in BagToSet(data.loads), ok \in BOOLEAN : LoadUserCounted(l, ok)
  \/ \E l \in BagToSet(data.loads), ok \in BOOLEAN : LoadRecordingsRead(l, ok)
  \/ RefreshAllUsers
  \/ RefreshAllRecordings

SpecData == InitDataLoad /\ [][NextData]_vars

(* ------------------------------ properties ----------------------------- *)
\* the recordings the current draft has created
DraftDocs == { r \in Existing : ghost[r].draft = draft }

\* a reviewed recording carries the identity of a reviewer
ReviewedHasReviewer ==
  \A r \in Existing :
     /\ recordings[r].status \in Statuses
     /\ recordings[r].status \in {"approved", "discarded"} => recordings[r].reviewer # NoUser

\* C1 as stated: every recording's status is one of needs_review, approved,
\* discarded; an approved or discarded recording carries a reviewer; and a
\* recording created by Submit-with-self-approve has the submitter as that reviewer
C1_ReviewerIsSubmitterAlways ==
  /\ ReviewedHasReviewer
  /\ \A r \in Existing :
        (ghost[r].createdStatus = "approved"
           /\ recordings[r].status \in {"approved", "discarded"})
        => recordings[r].reviewer = recordings[r].userId

\* C1 amended: every recording's status is one of needs_review, approved,
\* discarded; an approved or discarded recording carries a reviewer; and a
\* recording created by Submit-with-self-approve that has not been resubmitted
\* since is approved with the submitter as its reviewer
C1_ReviewerIsSubmitterUntilResubmit ==
  /\ ReviewedHasReviewer
  /\ \A r \in Existing :
        (ghost[r].createdStatus = "approved" /\ ghost[r].resubmits = 0)
        => /\ recordings[r].status = "approved"
           /\ recordings[r].reviewer = recordings[r].userId

\* a self-approved recording, and another recording an expert has discarded
C1_Witness ==
  /\ \E r \in Existing :
        /\ ghost[r].createdStatus = "approved" /\ ghost[r].resubmits = 0
        /\ recordings[r].reviewer = recordings[r].userId
  /\ \E r \in Existing :
        /\ recordings[r].status = "discarded"
        /\ recordings[r].reviewer # recordings[r].userId

\* C2 as stated: a resubmission by the owner from the History view leaves the
\* recording in needs_review and makes its history exactly one entry longer
C2_ResubmitAppendsHistory ==
  [][ \A r \in RecIds :
        (r \in Existing /\ ghost'[r].resubmits = ghost[r].resubmits + 1)
        => /\ recordings'[r].status = "needs_review"
           /\ Len(recordings'[r].history) = Len(recordings[r].history) + 1 ]_vars

\* C3: a recording an expert or admin submits with the self-approve option on
\* is created approved with the submitter as reviewer, and until it is
\* resubmitted neither the store nor a History snapshot shows it in needs_review
C3_SelfApprovedNeverNeedsReview ==
  \A r \in Existing :
     (ghost[r].optionOn /\ ghost[r].submitterRole \in {"expert", "admin"}
        /\ ghost[r].resubmits = 0)
     => /\ recordings[r].status = "approved"
        /\ recordings[r].reviewer = recordings[r].userId
        /\ \A i \in 1 .. Len(hist.recordings) :
              hist.recordings[i].recordingId = r => hist.recordings[i].status = "approved"

\* the History view shows a recording its expert owner submitted self-approved
C3_Witness ==
  \E r \in Existing :
     /\ ghost[r].optionOn /\ ghost[r].submitterRole = "expert" /\ ghost[r].resubmits = 0
     /\ ghost[r].draft = draft /\ net.write = 1
     /\ \E i \in 1 .. Len(hist.recordings) : hist.recordings[i].recordingId = r

\* C4 as stated: a recording a volunteer submitted was created in needs_review
\* without a reviewer whatever the option, and a recording was created approved
\* only if its submitter was an expert or admin and the option was on
C4_ApprovedOnlyByExpertSubmitter ==
  \A r \in Existing :
     /\ ghost[r].submitterRole = "volunteer"
        => ghost[r].createdStatus = "needs_review" /\ recordings[r].reviewer = NoUser
     /\ ghost[r].createdStatus = "approved"
        => ghost[r].submitterRole \in {"expert", "admin"} /\ ghost[r].optionOn

\* C5: a review decision requested by a volunteer is denied and leaves every
\* recording (status, reviewer, history) as it was, whatever its status
C5_VolunteerReviewRejected ==
  [][ (nReviews' = nReviews + 1 /\ review'.role = "volunteer")
      => (review'.outcome = "denied" /\ recordings' = recordings) ]_vars

\* a volunteer's decision on an already discarded recording was denied
C5_Witness ==
  /\ review # NoReview
  /\ review.role = "volunteer" /\ review.outcome = "denied"
  /\ review.decision = "approved"
  /\ review.target \in Existing
  /\ recordings[review.target].status = "discarded"

\* C6: no step takes a recording from discarded to approved or from approved
\* to discarded, and a reviewed recording returns to needs_review only by a
\* resubmission
C6_NoDirectFlip ==
  [][ \A r \in RecIds :
        (r \in Existing /\ recordings'[r].exists) =>
          /\ ~(recordings[r].status = "discarded" /\ recordings'[r].status = "approved")
          /\ ~(recordings[r].status = "approved" /\ recordings'[r].status = "discarded")
          /\ (recordings[r].status # "needs_review" /\ recordings'[r].status = "needs_review")
             => ghost'[r].resubmits = ghost[r].resubmits + 1 ]_vars

\* a discarded recording that was resubmitted and then approved
C6_Witness ==
  \E r \in Existing :
     /\ ghost[r].resubmittedFrom = "discarded"
     /\ recordings[r].status = "approved"

\* C7 as stated: a role write is issued only by an actor whose role is admin
\* at that time
C7_RoleWriteOnlyByAdmin ==
  lastRoleWrite # NoRoleWrite => lastRoleWrite.actorRole = "admin"

\* C8 as stated: an edit write targets a recording owned by the actor who is
\* signed in when it is issued
C8_EditOnlyByOwner ==
  lastEdit # NoEdit => lastEdit.owner = lastEdit.actor

\* the uploads that returned 2xx: setDoc is called after each of them, and
\* after nothing else
UploadsCompleted == net.write

\* C9 as stated: per draft at most one submit is in flight, at most one audio
\* upload is made and at most one recording is created
C9_OneUploadEver ==
  /\ Cardinality(subs) <= 1
  /\ UploadsCompleted <= 1
  /\ Cardinality(DraftDocs) <= 1

\* C9 amended: per draft at most one submit is in flight and at most one
\* recording is created; while a submit is in flight the screen shows the
\* submit button disabled and no step starts another submit, upload or
\* write than its own, none starts after the recording exists, and there
\* are never more uploads than submits that passed the guards
C9_OneSubmitInFlight ==
  /\ [](/\ Cardinality(subs) <= 1
        /\ Cardinality(DraftDocs) <= 1
        /\ net.upload <= attempts
        /\ net.write <= net.upload
        /\ DraftDocs # {} => subs = {}
        /\ subs # {} => SubmitDisabled(view))
  /\ [][ (subs # {} /\ draft' = draft) => /\ attempts' = attempts
                                          /\ Cardinality(subs') <= 1 ]_vars

\* a submit failed after its upload; the retry is uploading the audio again,
\* it is the only submit in flight and the button is disabled
C9_Witness ==
  /\ \E s \in subs : s.pc = "upload"
  /\ Cardinality(subs) = 1
  /\ view.submitting /\ SubmitDisabled(view)
  /\ attempts = 2 /\ net.upload = 2
  /\ DraftDocs = {}

\* C10: once a submit of the draft has succeeded (its recording exists, or
\* the draft is marked submitted) no step makes an auth call, profile read,
\* upload or write or creates a recording, and the draft stays marked; a
\* submit that fails leaves the draft unsubmitted, and the next render
\* accepts a submit again
C10_NoSecondSubmit ==
  /\ [][ draft' = draft =>
           /\ (ps.hasSubmitted \/ DraftDocs # {})
                => (net' = net /\ subs' = subs /\ recordings' = recordings
                      /\ attempts' = attempts /\ ps'.hasSubmitted)
           /\ (subs' # subs /\ subs' = {} /\ recordings' = recordings)
                => ~ps'.hasSubmitted ]_vars
  /\ []((attempts > 0 /\ subs = {} /\ DraftDocs = {} /\ view = Rendered(ps, pred))
          => SubmitGuard(view) = "start")

\* a submit failed, the retry succeeded, and the screen has rendered the
\* draft as submitted: the submit button is disabled
C10_Witness ==
  /\ ps.hasSubmitted /\ view.hasSubmitted
  /\ SubmitDisabled(view)
  /\ subs = {}
  /\ attempts = 2
  /\ net.write = 2
  /\ Cardinality(DraftDocs) = 1

\* C11: when the upload or the document write of a submit fails, the draft
\* has no recording afterwards, is not marked submitted and is not submitting;
\* and a recording is created only by a submit whose upload succeeded
C11_FailedSubmitLeavesNothing ==
  /\ [][ \A s \in subs :
           (s.pc \in {"upload", "write"} /\ draft' = draft
              /\ subs' = subs \ {s} /\ recordings' = recordings)
           => (DraftDocs' = {} /\ ~ps'.hasSubmitted /\ ~ps'.submitting) ]_vars
  /\ [][ recordings' # recordings
           => \E s \in subs : s.pc = "write" /\ net.write >= 1 /\ net.upload >= net.write ]_vars

\* the upload succeeded and the write failed: nothing exists, nothing is flagged
C11_Witness ==
  /\ attempts = 1 /\ subs = {}
  /\ net.upload = 1 /\ net.write = 1
  /\ DraftDocs = {}
  /\ ~ps.hasSubmitted /\ ~ps.submitting

\* C12: while no volunteer confidence level is selected no token request,
\* profile read, upload or write is made, and a tap on Submit leaves the
\* submitting and hasSubmitted flags as they were
C12_NoConfidenceNoCalls ==
  [][ (draft' = draft /\ view.volunteerConfidence = "")
      => /\ net' = net /\ subs' = subs /\ recordings' = recordings
         /\ attempts' = attempts
         /\ ps'.submitting = ps.submitting /\ ps'.hasSubmitted = ps.hasSubmitted
         /\ lastTap' \in {lastTap, "noconf"} ]_vars

\* a tap without a confidence level was rejected and nothing was called
C12_Witness ==
  /\ lastTap = "noconf"
  /\ view.volunteerConfidence = ""
  /\ net = NoCalls /\ attempts = 0
  /\ currentUser # NoUser

\* C13 as stated: no edit write is issued, from the History view or from the
\* Map view, for a confidence text that is not a number or is outside 0..100
C13_InvalidEditRejected ==
  \A e \in edits : ~HistConfidenceInvalid(e.text)

\* the score a view should display: the numeric override of the last edit
\* that supplied one, else the AI primary confidence in percent
ExpectedScore(r) ==
  IF ghost[r].override # Undefined THEN ghost[r].override
  ELSE RoundPercent(recordings[r].aiConfidence)

\* C14 as stated: for every recording the History / Map row, the row of the
\* shared data context and the row of the admin's user list all display the
\* override if an edit supplied one and the AI confidence otherwise, and an
\* edit that supplies an override leaves the recording in needs_review
C14_DisplayedScore ==
  /\ [](\A r \in Existing :
          /\ Row(r).confidence = ExpectedScore(r)
          /\ ParseRecording(r).confidence = ExpectedScore(r)
          /\ UserRecordingRow(r).confidence = ExpectedScore(r))
  /\ [][ \A r \in RecIds :
           (r \in Existing /\ ghost'[r].override # ghost[r].override)
           => recordings'[r].status = "needs_review" ]_vars

\* SpecPercent: toPercent applied once and twice to a number, and
\* normalizedTop3 applied to a converted number
InitPercent ==
  /\ InitCommon
  /\ InitStoreEmpty
  /\ userDocs = InitUserDocs
  /\ mounted = {}
  /\ pred = InitPred
  /\ \E x \in PercentInputs : calc = [ stage |-> 1, x |-> x, once |-> x, value |-> x ]

NextPercent == ApplyToPercent \/ ApplyNormalize01

SpecPercent == InitPercent /\ [][NextPercent]_vars

\* C15 as stated: applying toPercent twice gives what applying it once gives
C15_ToPercentIdempotent ==
  calc.stage = 3 => calc.value = calc.once

\* SpecGeo: calls of getCityFromCoords by the three screens
InitGeocode ==
  /\ InitCommon
  /\ InitStoreEmpty
  /\ userDocs = InitUserDocs
  /\ mounted = {}
  /\ calc = NoCalc
  /\ pred = InitPred

NextGeo ==
  \/ \E screen \in GeoScreens, lat \in GeoLats : GeoLookup(screen, lat)
  \/ \E f \in geo.fetches, outcome \in GeoOutcomes : GeoFetchDone(f, outcome)

SpecGeo == InitGeocode /\ [][NextGeo]_vars

\* the capture times of the recordings the views list
SyncTimes == 1 .. 2

\* a recording submitted earlier, with the locationCity it has stored
OldRecording(uid, now, city) ==
  [ NewRecording(uid, FALSE, ScreenRole(InitUserDocs[uid]), "high", now)
      EXCEPT !.locationCity = city ]

\* recording 1 belongs to e1, recording 2 to e1 or v1; the document ids say
\* nothing about the capture times
InitStoreOld(Times, city) ==
  \E owner \in {"e1", "v1"}, t1 \in Times, t2 \in Times :
     /\ recordings = [ r \in RecIds |->
                         IF r = 1 THEN OldRecording("e1", t1, city)
                         ELSE IF r = 2 THEN OldRecording(owner, t2, city)
                         ELSE NoDoc ]
     /\ ghost = [ r \in RecIds |->
                    IF r = 1
                    THEN SubmitGhost(1, FALSE, ResolveRole(InitUserDocs["e1"]), "needs_review")
                    ELSE IF r = 2
                    THEN SubmitGhost(2, FALSE, ResolveRole(InitUserDocs[owner]), "needs_review")
                    ELSE NoGhost ]

\* SpecSync: one recordings view (History, Map or the DataProvider) under
\* sign-in, sign-out, a change of account and unmount, with the background
\* geocoding its snapshots start; the stored locationCity of the recordings is
\* a bare pair of coordinates
InitSync ==
  /\ InitCommon
  /\ calc = NoCalc
  /\ pred = InitPred
  /\ InitStoreOld({1}, StoredCoords)
  /\ userDocs = InitUserDocs
  /\ \E screen \in {"history", "map", "context"} : mounted = {screen}

NextSync ==
  \/ AuthActions({"e1", "v1"})
  \/ \E u \in {"e1", "v1"} : SwitchUser(u)
  \/ \E u \in hist.listening : HistSnapshot(u)
  \/ \E u \in hist.listening : HistSnapshotError(u)
  \/ \E u \in map.listening : MapSnapshot(u)
  \/ \E u \in map.listening : MapSnapshotError(u)
  \/ \E u \in ctx.listening : CtxSnapshot(u)
  \/ \E u \in ctx.listening : CtxSnapshotError(u)
  \/ \E f \in geo.fetches, outcome \in {"place", "network_error"} : GeoFetchDone(f, outcome)
  \/ \E screen \in {"history", "map", "context"} : Unmount(screen)

SpecSync == InitSync /\ [][NextSync]_vars

\* SpecRank: the three views side by side over recordings whose capture
\* times are unrelated to their ids; the stored locationCity is a place name
InitRank ==
  /\ InitCommon
  /\ calc = NoCalc
  /\ pred = InitPred
  /\ InitStoreOld(SyncTimes, PlaceName)
  /\ userDocs = InitUserDocs
  /\ mounted = {"history", "map", "context"}

NextRank ==
  \/ AuthActions({"e1", "v1"})
  \/ \E u \in {"e1", "v1"} : SwitchUser(u)
  \/ \E u \in hist.listening : HistSnapshot(u)
  \/ \E u \in hist.listening : HistSnapshotError(u)
  \/ \E u \in map.listening : MapSnapshot(u)
  \/ \E u \in map.listening : MapSnapshotError(u)
  \/ \E u \in ctx.listening : CtxSnapshot(u)
  \/ \E u \in ctx.listening : CtxSnapshotError(u)

SpecRank == InitRank /\ [][NextRank]_vars

\* two recordings of e1 with any capture times; the second may lack a
\* predicted species, and the server may not have set its timestamp yet
\* (the snapshot of a pending write gives null for serverTimestamp())
InitStoreFilter ==
  \E t1 \in FilterTimes, t2 \in FilterTimes, species \in {"Wood Frog", ""},
     pending \in BOOLEAN :
     \* one client time stands for those of the pending writes
     /\ pending => t2 = 0
     /\ recordings = [ r \in RecIds |->
                         IF r = 1 THEN OldRecording("e1", t1, PlaceName)
                         ELSE IF r = 2
                         THEN [ OldRecording("e1", t2, PlaceName)
                                  EXCEPT !.predictedSpecies = species,
                                         !.timestampMs = IF pending THEN Undefined ELSE @ ]
                         ELSE NoDoc ]
     /\ ghost = [ r \in RecIds |->
                    IF r \in {1, 2}
                    THEN SubmitGhost(r, FALSE, ResolveRole(InitUserDocs["e1"]), "needs_review")
                    ELSE NoGhost ]

\* SpecFilter: the Map view's species and date filters over its list
InitFilter ==
  /\ InitCommon
  /\ calc = NoCalc
  /\ pred = InitPred
  /\ InitStoreFilter
  /\ userDocs = InitUserDocs
  /\ mounted = {"map"}

NextFilter ==
  \/ AuthActions({"e1"})
  \/ \E u \in map.listening : MapSnapshot(u)
  \/ \E u \in map.listening : MapSnapshotError(u)
  \/ \E species \in ToggledSpecies : ToggleSpecies(species)
  \/ ClearAllSpecies
  \/ SelectAllSpecies
  \/ OpenDatePicker
  \/ OpenSpeciesPicker
  \/ ClosePicker
  \/ \E date \in CalendarDates : HandleDateSelect(date)
  \/ ClearDateFilter

SpecFilter == InitFilter /\ [][NextFilter]_vars

\* recording 1 was predicted a Bullfrog, and its owner may have changed the
\* species in the Map view (handleSaveEdits writes `species` only);
\* recording 2 is a Wood Frog captured at a place of any name
InitStoreSearch ==
  \E species \in {"", "Wood Frog"}, city \in {PlaceName, LakeName} :
     /\ recordings = [ r \in RecIds |->
                         IF r = 1
                         THEN [ OldRecording("e1", 1, PlaceName) EXCEPT !.species = species ]
                         ELSE IF r = 2
                         THEN [ OldRecording("e1", 2, city)
                                  EXCEPT !.predictedSpecies = "Wood Frog" ]
                         ELSE NoDoc ]
     /\ ghost = [ r \in RecIds |->
                    IF r \in {1, 2}
                    THEN SubmitGhost(r, FALSE, ResolveRole(InitUserDocs["e1"]), "needs_review")
                    ELSE NoGhost ]

\* SpecSearch: the History view's text search over its list
InitSearch ==
  /\ InitCommon
  /\ calc = NoCalc
  /\ pred = InitPred
  /\ InitStoreSearch
  /\ userDocs = InitUserDocs
  /\ mounted = {"history"}

NextSearch ==
  \/ AuthActions({"e1"})
  \/ \E u \in hist.listening : HistSnapshot(u)
  \/ \E u \in hist.listening : HistSnapshotError(u)
  \/ \E r \in RecIds : HistExpand(r)
  \/ \E r \in RecIds : HistEdit(r)
  \/ \E text \in SearchQueries : SetSearchQuery(text)

SpecSearch == InitSearch /\ [][NextSearch]_vars

\* two recordings: the first of either owner and of any status, the second
\* the volunteer's and not approved
InitStoreCounts ==
  \E o1 \in {"e1", "v1"}, o2 \in {"v1"}, s1 \in Statuses,
     s2 \in {"needs_review", "discarded"} :
     /\ recordings = [ r \in RecIds |->
                         IF r = 1 THEN [ OldRecording(o1, 1, PlaceName) EXCEPT !.status = s1 ]
                         ELSE IF r = 2
                         THEN [ OldRecording(o2, 2, PlaceName) EXCEPT !.status = s2 ]
                         ELSE NoDoc ]
     /\ ghost = [ r \in RecIds |->
                    IF r \in {1, 2}
                    THEN SubmitGhost(r, FALSE, "volunteer", "needs_review")
                    ELSE NoGhost ]

\* SpecCounts: the admin's user list and the expert's review counts over
\* a store that does not change while they load
InitCounts ==
  /\ InitCommon
  /\ calc = NoCalc
  /\ pred = InitPred
  /\ InitStoreCounts
  /\ userDocs = InitUserDocs
  /\ mounted = {"users", "expertHome"}

NextCounts ==
  \/ AuthActions({"a1", "e1"})
  \/ \E u \in Users, ok \in BOOLEAN : UsCheckDone(u, ok)
  \/ \E l \in BagToSet(us.loads), ok \in BOOLEAN : UsDocsRead(l, ok)
  \/ \E l \in BagToSet(us.loads), ok \in BOOLEAN :
        \E row \in l.pending : UsCountDone(l, row, ok)
  \/ HomeFocus
  \/ \E l \in BagToSet(home.loads), ok \in BOOLEAN : HomeUserDone(l, ok)
  \/ \E l \in BagToSet(home.loads), ok \in BOOLEAN : HomeCountDone(l, ok)

SpecCounts == InitCounts /\ [][NextCounts]_vars

\* C16 as stated: for every rounded key at most one call of the geocoder is
\* made, whichever screens look it up and whether or not the lookups overlap
C16_OneCallPerKey ==
  \A key \in GeoKeys : geo.calls[key] <= 1

\* C17 as stated: a lookup the geocoder fails (no answer, a body that is not
\* JSON, a body without an address) returns "Unknown Location" and leaves
\* the cache as it was
C17_FailureNotCached ==
  [][ \A f \in geo.fetches :
        (f \notin geo'.fetches /\ geo'.last.outcome \in {"no_address", "bad_json", "network_error"})
        => (geo'.last.result = "Unknown Location" /\ geo'.cache = geo.cache) ]_vars

\* the rows of a list all belong to user u
RowsOwnedBy(rows, u) == \A i \in 1 .. Len(rows) : rows[i].userId = u

WithoutCity(rows) == [ i \in 1 .. Len(rows) |-> [ rows[i] EXCEPT !.locationCity = "" ] ]

\* what C19 asks of one step of a mounted view, v before it and w after it,
\* with u signed in after it
OneActorView(v, w, u) ==
  /\ Cardinality(w.listening) <= 1
  /\ w.listening \subseteq {u}
  /\ \A i, j \in 1 .. Len(w.recordings) : w.recordings[i].userId = w.recordings[j].userId
  /\ (WithoutCity(w.recordings) # WithoutCity(v.recordings)
        => RowsOwnedBy(w.recordings, u))

\* C19: a mounted recordings view has at most one snapshot listener, that of
\* the signed-in user; its list holds recordings of one user only, and every
\* step that puts other recordings into the list puts in those of the user
\* signed in at that step, never a snapshot of an earlier actor's query
C19_OneListenerOneActor ==
  [][ /\ ("history" \in mounted' => OneActorView(hist, hist', currentUser'))
      /\ ("map" \in mounted' => OneActorView(map, map', currentUser'))
      /\ ("context" \in mounted' => OneActorView(ctx, ctx', currentUser')) ]_vars

\* the account changed from e1 to v1 in the History view: the lookup that
\* e1's snapshot started for recording 1 is still in flight, and v1's
\* snapshot has been applied
C19_Witness ==
  /\ currentUser = "v1"
  /\ "history" \in mounted
  /\ hist.listening = {"v1"}
  /\ \E f \in geo.fetches : f.screen = "history" /\ f.rec = 1
  /\ ~hist.loading /\ Len(hist.recordings) > 0 /\ RowsOwnedBy(hist.recordings, "v1")

\* the list is ordered by capture time, newest first
TimeDescending(rows) ==
  \A i, j \in 1 .. Len(rows) : i < j => rows[i].timestampMs >= rows[j].timestampMs
\* the display rank of every row is its position in the list
RankIsPosition(rows) == \A i \in 1 .. Len(rows) : rows[i].recordingNumber = i

\* C20 as stated: every view's list is ordered by capture time descending,
\* the rank of a row is its position, and the History view and the Map view
\* give a recording they both list the same rank
C20_RankByTime ==
  /\ TimeDescending(hist.recordings) /\ RankIsPosition(hist.recordings)
  /\ TimeDescending(map.recordings) /\ RankIsPosition(map.recordings)
  /\ TimeDescending(ctx.recordings)
  /\ RowIds(hist.recordings) = RowIds(map.recordings)
       => \A r \in RowIds(hist.recordings) :
             RowOf(hist.recordings, r).recordingNumber
               = RowOf(map.recordings, r).recordingNumber

\* C21 as stated: the History list changes only by becoming the projection of
\* the store as it is then (or empty): after every change the status, species,
\* notes and confidence it shows are those the store holds
C21_ListIsSnapshot ==
  [][ hist'.recordings # hist.recordings =>
        \/ hist'.recordings = << >>
        \/ \E u \in Users : hist'.recordings = HistRows(u)' ]_vars

\* the list the Map view shows
MapShown ==
  MapFilteredRecordings(map.recordings, map.selectedSpecies, map.startDate, map.endDate)

\* the rows a filter with the date range only lets through
DateFiltered(rows, startDate, endDate) ==
  FilterRows(rows, { i \in 1 .. Len(rows) : PassesDate(startDate, endDate, rows[i]) })

\* C22: with an empty species allow-set the Map view shows exactly the rows
\* the date range alone lets through, whatever their species
C22_EmptySetMatchesAll ==
  map.selectedSpecies = {} =>
    MapShown = DateFiltered(map.recordings, map.startDate, map.endDate)

\* the allow-set is empty, a date range is set that excludes one of the two
\* rows, and the row shown has no predicted species
C22_Witness ==
  /\ map.selectedSpecies = {}
  /\ map.startDate # NoDate /\ map.endDate # NoDate
  /\ Len(map.recordings) = 2
  /\ Len(MapShown) = 1
  /\ MapShown[1].predictedSpecies = ""

\* the Map view with the date range only shows row i
ShownInRange(i) ==
  map.recordings[i].recordingId
    \in RowIds(MapFilteredRecordings(map.recordings, {}, map.startDate, map.endDate))

\* the capture time t is not before the start date and not after the last
\* instant of the end date's day
InRange(t) ==
  /\ map.startDate <= t
  /\ t \div DayTicks <= map.endDate \div DayTicks

\* C24 as stated: with a start and an end date the Map view (no species
\* restriction) shows a row exactly when it has a capture time that is not
\* before the start date and not after the last instant of the end date's day
C24_OnlyRowsInRange ==
  (map.startDate # NoDate /\ map.endDate # NoDate) =>
    \A i \in 1 .. Len(map.recordings) :
       ShownInRange(i) <=> (/\ map.recordings[i].timestampMs # Undefined
                            /\ InRange(map.recordings[i].timestampMs))

\* C24, amended: with a start and an end date the Map view (no species
\* restriction) shows a row that has a capture time exactly when that time
\* is not before the start date and not after the last instant of the end
\* date's day; a row without a capture time is shown whatever the range
C24_EndDayInclusive ==
  (map.startDate # NoDate /\ map.endDate # NoDate) =>
    \A i \in 1 .. Len(map.recordings) :
       IF map.recordings[i].timestampMs = Undefined
       THEN ShownInRange(i)
       ELSE ShownInRange(i) <=> InRange(map.recordings[i].timestampMs)

\* a range is set; one row was captured at the last instant of the end day
\* and is shown, the other was captured before the start and is not
C24_Witness ==
  /\ map.startDate # NoDate /\ map.endDate # NoDate
  /\ map.selectedSpecies = {}
  /\ Len(map.recordings) = 2
  /\ \E i, j \in 1 .. 2 :
       /\ map.recordings[i].timestampMs = map.endDate + DayTicks - 1
       /\ map.recordings[i].recordingId \in RowIds(MapShown)
       /\ map.recordings[j].timestampMs # Undefined
       /\ map.recordings[j].timestampMs < map.startDate
       /\ map.recordings[j].recordingId \notin RowIds(MapShown)

\* the row matches the query by the species it shows or by its place name
MatchesQuery(rec, searchQuery) ==
  \/ Includes(ToLowerCase(Chars(MatchedSpeciesShown(rec))), ToLowerCase(Chars(searchQuery)))
  \/ Includes(ToLowerCase(Chars(rec.locationCity)), ToLowerCase(Chars(searchQuery)))

\* C23 as stated: a non-empty query selects exactly the rows whose current
\* species or place name contains it, letter case ignored
C23_QuerySelectsCurrentSpecies ==
  hist.searchQuery # "" =>
    RowIds(HistFilteredRecordings(hist.recordings, hist.searchQuery))
      = { hist.recordings[i].recordingId :
            i \in { j \in 1 .. Len(hist.recordings) :
                      MatchesQuery(hist.recordings[j], hist.searchQuery) } }

\* C25: every row of the user list shows the number of recordings its user
\* owns, whatever their status, and the counts a completed load shows to an
\* expert are the numbers of recordings of the three statuses
C25_CountsMatchStore ==
  /\ \A row \in us.users :
        row.submissionCount = Cardinality({ r \in Existing : recordings[r].userId = row.userId })
  /\ home.loaded =>
        /\ home.pendingReviews
             = Cardinality({ r \in Existing : recordings[r].status = "needs_review" })
        /\ home.approvedCount
             = Cardinality({ r \in Existing : recordings[r].status = "approved" })
        /\ home.discardedCount
             = Cardinality({ r \in Existing : recordings[r].status = "discarded" })

\* the list shows a user with two recordings that are not both approved,
\* and a load of the review counts has completed with a discarded recording
C25_Witness ==
  /\ home.loaded /\ home.discardedCount = 1 /\ home.pendingReviews = 1
  /\ \E row \in us.users : row.submissionCount = 2

\* C26: no user whose document marks them as admin (by the flag or by the
\* role in any letter case) is in the user list, in the dialog or the target
\* of a role write
C26_NoAdminListed ==
  /\ \A row \in us.users : ~DocIsAdmin(userDocs[row.userId])
  /\ us.dialog # NoDialog => ~DocIsAdmin(userDocs[us.dialog.userId])
  /\ \A op \in roleOps : ~DocIsAdmin(userDocs[op.target])

\* the list has been loaded while the store holds a second admin whose role
\* is spelled "Admin"
C26_Witness ==
  /\ us.shown /\ us.users # {}
  /\ userDocs["e1"].role = "Admin"

\* C27: no stored user document and no row of the user list has
\* isPendingExpert true together with the expert role
C27_PendingExcludesExpert ==
  /\ \A u \in Users :
        userDocs[u].exists =>
          ~(userDocs[u].isPendingExpert
              /\ (ResolveRole(userDocs[u]) = "expert" \/ userDocs[u].isExpert))
  /\ \A row \in us.users : ~(row.isPendingExpert /\ row.isExpert)

\* the volunteer's request was denied and expert access granted afterwards:
\* both writes have completed and the list shows the new expert
C27_Witness ==
  /\ nRoleWrites = 2 /\ roleOps = {}
  /\ lastRoleWrite.kind = "toggle" /\ lastRoleWrite.target = "v1"
  /\ userDocs["v1"].role = "expert"
  /\ \E row \in us.users : row.userId = "v1" /\ row.isExpert

\* C28: the write of an approval changes the user document in one step to
\* role expert with isPendingExpert false, on the API path and on the
\* fallback path: no step makes a user an expert and leaves the request
\* pending, and no step of an approval clears the request without the role
C28_ApproveInOneUpdate ==
  [][ \A op \in roleOps :
        (op.kind = "approve" /\ userDocs'[op.target] # userDocs[op.target]
           /\ op \notin roleOps' /\ roleOps' \subseteq roleOps)
        => (/\ ~userDocs'[op.target].isPendingExpert
            /\ ResolveRole(userDocs'[op.target]) = "expert") ]_vars

\* an approval of the pending volunteer has completed: the document holds
\* role expert and no pending request
C28_Witness ==
  /\ lastRoleWrite.kind = "approve" /\ lastRoleWrite.target = "v1"
  /\ roleOps = {} /\ nRoleWrites = 1
  /\ userDocs["v1"].role = "expert" /\ ~userDocs["v1"].isPendingExpert

\* C29: for the account's users document, every screen that has resolved a
\* role resolved the explicit role field when it is present and the legacy
\* flags only when it is absent: the login routing, the UsersScreen back
\* target and the PredictionScreen role all agree with that resolution
C29_RoleFieldWins ==
  LET d == userDocs["e1"]
      role == ResolveRole(d)
  IN /\ nav.login # "none" => nav.login = HomeScreenOf(role)
     /\ (currentUser = "e1" /\ nav.back # InitNav.back) => nav.back = HomeScreenOf(role)
     /\ ps.role # "null" => Lower(ps.role) = role

\* the fields of a users document that resolve its role
RoleFieldsOf(d) == << d.role, d.isAdmin, d.isExpert >>

\* C30: a users document created by registration has the volunteer role and
\* neither an admin nor an expert flag; the role fields of an existing
\* document change only in the step that settles a grant, revoke or approve
\* operation whose actor is an admin
C30_RoleFixedThenAdminOnly ==
  [][ \A u \in Users :
        /\ (~userDocs[u].exists /\ userDocs[u]'.exists)
              => /\ Lower(userDocs[u]'.role) = "volunteer"
                 /\ ~userDocs[u]'.isAdmin /\ ~userDocs[u]'.isExpert
        /\ (userDocs[u].exists /\ RoleFieldsOf(userDocs[u]') # RoleFieldsOf(userDocs[u]))
              => \E op \in roleOps :
                    /\ op \notin roleOps'
                    /\ op.target = u
                    /\ op.kind \in {"toggle", "approve"}
                    /\ RoleOf(op.actor) = "admin" ]_vars

\* C31: the endpoints are contacted in list order, each one only after the
\* one before it failed; a real result comes from the last endpoint contacted
\* and no alert is shown; a mock result comes only when every endpoint
\* failed (or was no http URL), together with the alert
C31_FailoverInOrder ==
  /\ \A c \in BagToSet(pred.calls) \cup pred.ended :
        /\ \A i \in 1 .. Len(c.contacted) : c.contacted[i] = i
        /\ \A i \in 1 .. (Len(c.contacted) - 1) : c.contacted[i] \in c.failed
  /\ \A c \in pred.ended :
        /\ c.source = "real" =>
              /\ c.answered = Len(c.contacted)
              /\ c.answered \notin c.failed
              /\ ~c.alerted
        /\ c.source = "mock" =>
              /\ c.alerted
              /\ \A k \in 1 .. Len(Endpoints) :
                    k \in c.failed \/ ~IsHttpUrl(EndpointUrl(pred.apiBase, k))
        /\ c.alerted => c.source = "mock"

\* the second endpoint answered a call after the first had failed, and the
\* screen shows its species
C31_Witness ==
  /\ \E c \in pred.ended : c.source = "real" /\ c.answered = 2 /\ 1 \in c.failed
  /\ pred.source = "real" /\ pred.predictedSpecies = "Wood Frog"

\* C32: whenever the loading indicator is shown it is eventually cleared
C32_CallEnds == pred.loading ~> ~pred.loading

\* C34: every recording of the draft stores an AI top3 of at most 3
\* entries, each confidence within [0,1], in descending order, and a
\* primary AI confidence within [0,1]
C34_StoredTop3WellFormed ==
  \A r \in DraftDocs :
     LET t == recordings[r].aiTop3 IN
       /\ Len(t) <= 3
       /\ \A i \in 1 .. Len(t) : t[i].confidence >= 0 /\ t[i].confidence <= Scale
       /\ \A i \in 1 .. (Len(t) - 1) : t[i].confidence >= t[i + 1].confidence
       /\ recordings[r].aiConfidence >= 0 /\ recordings[r].aiConfidence <= Scale

\* C37: every recording of the draft was submitted after a prediction
\* result, real or mock, had been received for the draft
C37_NoWriteBeforePrediction ==
  \A r \in DraftDocs : ghost[r].predSource \in {"real", "mock"}

\* C40: a recording submitted after the predictor answered stores the
\* species the predictor returned as its AI species
C40_AiSpeciesIsPredicted ==
  \A r \in DraftDocs :
     ghost[r].predSource \in {"real", "mock"} /\ ghost[r].resSpecies # ""
       => recordings[r].aiSpecies = ghost[r].resSpecies

\* C33: a recording carries a reviewer exactly when its status is approved
\* or discarded
C33_ReviewDataIffReviewed ==
  \A r \in Existing :
     (recordings[r].reviewer # NoUser) <=> (recordings[r].status \in {"approved", "discarded"})

\* C35: a resubmission from the History view changes, on the target, only
\* the species fields, the notes, the confidence score and the status: the
\* owner, location, capture time, AI species, AI confidence, AI top3,
\* history and every other field are unchanged, the AI confidence a row
\* shows for it is unchanged, every other recording is unchanged, and with
\* the confidence field left empty the confidence score is unchanged
C35_ResubmitFrame ==
  [][ \A r \in RecIds :
        (r \in Existing /\ ghost'[r].resubmits = ghost[r].resubmits + 1) =>
          /\ recordings'[r] =
                [ recordings[r] EXCEPT !.species = recordings'[r].species,
                                       !.predictedSpecies = recordings'[r].predictedSpecies,
                                       !.notes = recordings'[r].notes,
                                       !.confidenceScore = recordings'[r].confidenceScore,
                                       !.status = recordings'[r].status ]
          /\ recordings'[r].aiSpecies = recordings[r].aiSpecies
          /\ recordings'[r].aiConfidence = recordings[r].aiConfidence
          /\ recordings'[r].aiTop3 = recordings[r].aiTop3
          /\ recordings'[r].history = recordings[r].history
          /\ recordings'[r].userId = recordings[r].userId
          /\ Row(r)'.aiConfidence = Row(r).aiConfidence
          /\ \A q \in RecIds \ {r} : recordings'[q] = recordings[q]
          /\ (\E e \in edits : e \notin edits' /\ e.target = r /\ e.text = "")
                => recordings'[r].confidenceScore = recordings[r].confidenceScore ]_vars

\* a recording was resubmitted with a new confidence score and keeps the AI
\* confidence of its prediction
C35_Witness ==
  \E r \in Existing :
     /\ ghost[r].resubmits = 1
     /\ recordings[r].status = "needs_review"
     /\ recordings[r].confidenceScore = 6000
     /\ recordings[r].aiConfidence = PrimaryConf01

\* C38: a step that leaves a recording approved or discarded leaves its
\* species, notes and confidence score as they were
C38_ReviewedIsFrozen ==
  [][ \A r \in RecIds :
        (r \in Existing /\ recordings[r].status \in {"approved", "discarded"}
           /\ recordings'[r].status = recordings[r].status) =>
          /\ recordings'[r].species = recordings[r].species
          /\ recordings'[r].notes = recordings[r].notes
          /\ recordings'[r].confidenceScore = recordings[r].confidenceScore ]_vars

\* C36: with no actor signed in the two pre-fetched lists are empty and
\* initialLoadComplete is false; with an actor signed in and
\* initialLoadComplete true, the lists and the flag were set by a load of
\* that actor's session
C36_ListsOfThisSession ==
  /\ currentUser = NoUser =>
        /\ data.allUsers = {} /\ data.allRecordings = << >>
        /\ ~data.initialLoadComplete
  /\ (currentUser # NoUser /\ data.initialLoadComplete) =>
        /\ data.completeFrom = "current"
        /\ data.usersFrom # "old" /\ data.recordingsFrom # "old"

\* C39: a step that starts loadUsers (the read of the whole users
\* collection) is the admin check of an actor whose users document exists
\* and resolves to admin
C39_UsersReadOnlyForAdmin ==
  [][ BagCardinality(us'.loads) > BagCardinality(us.loads) =>
        \E u \in BagToSet(us.checking) :
           /\ CopiesIn(u, us'.checking) < CopiesIn(u, us.checking)
           /\ userDocs[u].exists /\ DocIsAdmin(userDocs[u]) ]_vars

====
